---------------------------- MODULE Spec2Model ----------------------------
(***************************************************************************)
(* Personal finance tracker: the REST handlers of src/app/main.py, the     *)
(* CRUD and analytics functions of src/app/crud.py, the registration flow  *)
(* of src/app/auth.py and the table constraints of src/app/models.py.      *)
(*                                                                         *)
(* Conventions of the model                                                *)
(*  - money is an exact decimal counted in thousandths of a currency unit  *)
(*    (1004 is 1.004), so that round(x, 2) is a real conversion: it rounds *)
(*    to a multiple of 10.  Percentages are counted in tenths of a percent *)
(*    (450 is 45.0), the precision of round(x, 1);                         *)
(*  - a date is the integer year*10000 + month*100 + day (20240229), whose *)
(*    integer order is the calendar order;                                 *)
(*  - an Optional value is None (<<>>) or Some(v) (<<v>>);                 *)
(*  - a handler is an operator from the store and the request to the new   *)
(*    store and the HTTP response; an action applies one handler to the    *)
(*    current store and records the response in resp.                      *)
(***************************************************************************)
EXTENDS Integers, Sequences, FiniteSets, TLC

VARIABLES
    categories,     \* table categories: set of rows
    transactions,   \* table transactions: set of rows
    budgets,        \* table budgets: set of rows
    users,          \* table users: set of rows
    today,          \* date.today()
    utcnow,         \* datetime.utcnow(), in minutes
    resp,           \* the response of the last request
    tokens,         \* the access tokens issued so far, held by the clients
    calls,          \* the requests in progress: caller -> where its handler is
    sessions        \* the database sessions opened so far: id -> state

vars ==
    <<categories, transactions, budgets, users, today, utcnow, resp, tokens,
      calls, sessions>>

-----------------------------------------------------------------------------
(* Bounds of the model.                                                    *)

\* highest primary key a table hands out in the model
MaxCategories == 2
MaxTransactions == 2
MaxUsers == 2

-----------------------------------------------------------------------------
(* Values.                                                                 *)

None == <<>>
Some(v) == <<v>>
Val(o) == o[1]

date(y, m, d) == y * 10000 + m * 100 + d
YearOf(d) == d \div 10000
MonthOf(d) == (d \div 100) % 100
DayOf(d) == d % 100

RECURSIVE SumOver(_, _)
\* sum of f[x] over the finite set S
SumOver(S, f) ==
    IF S = {} THEN 0
    ELSE LET x == CHOOSE y \in S : TRUE IN f[x] + SumOver(S \ {x}, f)

MaxOf(S) == CHOOSE x \in S : \A y \in S : y <= x

\* the store as one value
DB == [categories |-> categories, transactions |-> transactions,
       budgets |-> budgets, users |-> users]

\* what a handler returns: the store it leaves and the HTTP response
Reply(db, status, detail, body) ==
    [db |-> db, status |-> status, detail |-> detail, body |-> body]

\* INTEGER PRIMARY KEY of the default SQLite store: one more than the
\* highest key in the table
NextId(ids) == IF ids = {} THEN 1 ELSE MaxOf(ids) + 1

-----------------------------------------------------------------------------
(* Table constraints (src/app/models.py), enforced at commit.              *)

CategoryTypes == {"INCOME", "EXPENSE"}

CategoryConstraints(cats) ==
    /\ \A c \in cats : c.type \in CategoryTypes
    /\ \A c1, c2 \in cats : c1.name = c2.name => c1 = c2

TransactionConstraints(txs) ==
    \A t \in txs : t.amount > 0 /\ t.type \in CategoryTypes

BudgetConstraints(buds) ==
    /\ \A b \in buds : b.amount > 0
    /\ \A b1, b2 \in buds : b1.category_id = b2.category_id => b1 = b2

UserConstraints(us) ==
    \A u1, u2 \in us :
        (u1.username = u2.username \/ u1.email = u2.email) => u1 = u2

IntegrityOK(db) ==
    /\ CategoryConstraints(db.categories)
    /\ TransactionConstraints(db.transactions)
    /\ BudgetConstraints(db.budgets)
    /\ UserConstraints(db.users)

-----------------------------------------------------------------------------
(* Request validation (src/app/schemas.py): a request that fails it is     *)
(* answered 422 by the framework before the handler's body runs.           *)

HTTP_OK == 200
HTTP_CREATED == 201
HTTP_BAD_REQUEST == 400
HTTP_UNAUTHORIZED == 401
HTTP_NOT_FOUND == 404
HTTP_UNPROCESSABLE == 422
HTTP_INTERNAL_ERROR == 500
HTTP_SERVICE_UNAVAILABLE == 503

\* a validator that lets zero through (ge=0)
GreaterThanZero_Mutant(amount) == amount >= 0

\* Field(..., gt=0)
GreaterThanZero(amount) == amount > 0

\* Each validator gives the set of fields in error; the request is valid
\* when the set is empty.

\* CategoryBase: name min_length=1, type Literal['INCOME', 'EXPENSE']
CategoryCreateErrors(category) ==
    {f \in {"name"} : Len(category.name) < 1}
    \cup {f \in {"type"} : category.type \notin CategoryTypes}

\* TransactionBase: amount gt=0, type Literal['INCOME', 'EXPENSE']
TransactionCreateErrors(transaction) ==
    {f \in {"amount"} : ~GreaterThanZero(transaction.amount)}
    \cup {f \in {"type"} : transaction.type \notin CategoryTypes}

\* TransactionUpdate: every field Optional; a field that is supplied and is
\* not null is validated as in TransactionBase
TransactionUpdateErrors(update) ==
    {f \in {"amount"} :
        /\ "amount" \in DOMAIN update
        /\ update.amount # None
        /\ ~GreaterThanZero(Val(update.amount))}
    \cup {f \in {"type"} :
        /\ "type" \in DOMAIN update
        /\ update.type # None
        /\ Val(update.type) \notin CategoryTypes}

\* BudgetBase: amount gt=0; period is any string
BudgetCreateErrors(budget) ==
    {f \in {"amount"} : ~GreaterThanZero(budget.amount)}

\* BudgetBase.period: Field(default='MONTHLY')
BudgetCreate(request) ==
    [category_id |-> request.category_id,
     amount |-> request.amount,
     period |-> IF request.period = None THEN "MONTHLY" ELSE Val(request.period)]

-----------------------------------------------------------------------------
(* Category CRUD (src/app/crud.py).                                        *)

\* Some(row) or None
get_category(db, category_id) ==
    LET found == {c \in db.categories : c.category_id = category_id}
    IN IF found = {} THEN None ELSE Some(CHOOSE c \in found : TRUE)

\* the name is not looked up: a duplicate is left to the UNIQUE index
create_category_Mutant(db, category) ==
    LET db_category ==
            [category_id |-> NextId({c.category_id : c \in db.categories}),
             name |-> category.name,
             type |-> category.type]
        added == [db EXCEPT !.categories = @ \cup {db_category}]
    IN  IF IntegrityOK(added)
        THEN Reply(added, HTTP_OK, "", Some(db_category))
        ELSE Reply(db, HTTP_BAD_REQUEST, "Database error", None)

create_category(db, category) ==
    LET existing == {c \in db.categories : c.name = category.name}
        db_category ==
            [category_id |-> NextId({c.category_id : c \in db.categories}),
             name |-> category.name,
             type |-> category.type]
        added == [db EXCEPT !.categories = @ \cup {db_category}]
    IN  IF existing # {}
        THEN Reply(db, HTTP_BAD_REQUEST, "Category already exists", None)
        ELSE IF IntegrityOK(added)
        THEN Reply(added, HTTP_OK, "", Some(db_category))
        ELSE Reply(db, HTTP_BAD_REQUEST, "Database error", None)

\* only the transactions cascade
cascade_delete_Mutant(db, category) ==
    [db EXCEPT
        !.categories = @ \ {category},
        !.transactions = {t \in @ : t.category_id # category.category_id}]

\* Category.transactions and Category.budgets, both cascade="all,
\* delete-orphan": deleting the category row deletes the rows that refer to it
cascade_delete(db, category) ==
    [db EXCEPT
        !.categories = @ \ {category},
        !.transactions = {t \in @ : t.category_id # category.category_id},
        !.budgets = {b \in @ : b.category_id # category.category_id}]

\* Deleting one category (no handler of the source does it): the row is
\* looked up and deleted through the ORM session
delete_category(db, category_id) ==
    LET category == get_category(db, category_id)
    IN  IF category = None
        THEN Reply(db, HTTP_NOT_FOUND, "Category not found", None)
        ELSE Reply(cascade_delete(db, Val(category)), HTTP_OK, "", None)

\* scripts/seed_data.py: "Clearing existing data"
clear_data(db) ==
    [db EXCEPT !.budgets = {}, !.transactions = {}, !.categories = {}]

-----------------------------------------------------------------------------
(* Transaction CRUD (src/app/crud.py).                                     *)

get_transaction(db, transaction_id) ==
    LET found == {t \in db.transactions : t.transaction_id = transaction_id}
    IN IF found = {} THEN None ELSE Some(CHOOSE t \in found : TRUE)

\* the category is not looked up
create_transaction_Mutant(db, transaction) ==
    LET db_transaction ==
            [transaction_id |->
                NextId({t.transaction_id : t \in db.transactions}),
             amount |-> transaction.amount,
             type |-> transaction.type,
             description |-> transaction.description,
             transaction_date |-> transaction.transaction_date,
             category_id |-> transaction.category_id]
        added == [db EXCEPT !.transactions = @ \cup {db_transaction}]
    IN  IF IntegrityOK(added)
        THEN Reply(added, HTTP_OK, "", Some(db_transaction))
        ELSE Reply(db, HTTP_BAD_REQUEST, "Database error", None)

create_transaction(db, transaction) ==
    LET category == get_category(db, transaction.category_id)
        db_transaction ==
            [transaction_id |->
                NextId({t.transaction_id : t \in db.transactions}),
             amount |-> transaction.amount,
             type |-> transaction.type,
             description |-> transaction.description,
             transaction_date |-> transaction.transaction_date,
             category_id |-> transaction.category_id]
        added == [db EXCEPT !.transactions = @ \cup {db_transaction}]
    IN  IF category = None
        THEN Reply(db, HTTP_BAD_REQUEST, "Category not found", None)
        ELSE IF IntegrityOK(added)
        THEN Reply(added, HTTP_OK, "", Some(db_transaction))
        ELSE Reply(db, HTTP_BAD_REQUEST, "Database error", None)

\* the category of an update is not looked up
CategoryUnresolved_Mutant(db, update_data) == FALSE

\* if 'category_id' in update_data: ... if not category
CategoryUnresolved(db, update_data) ==
    /\ "category_id" \in DOMAIN update_data
    /\ \/ update_data.category_id = None
       \/ get_category(db, Val(update_data.category_id)) = None

\* no rollback: the row of a refused update is lost
update_transaction_Mutant(db, transaction_id, update_data) ==
    LET db_transaction == get_transaction(db, transaction_id)
        row == Val(db_transaction)
        \* for field, value in update_data.items(): setattr(...)
        attr(field, old) ==
            IF field \in DOMAIN update_data THEN update_data[field] ELSE old
        amount == attr("amount", Some(row.amount))
        type == attr("type", Some(row.type))
        description == attr("description", row.description)
        transaction_date == attr("transaction_date", Some(row.transaction_date))
        category_id == attr("category_id", Some(row.category_id))
        \* amount, type, transaction_date, category_id are nullable=False
        not_null ==
            /\ amount # None /\ type # None
            /\ transaction_date # None /\ category_id # None
        updated ==
            [transaction_id |-> row.transaction_id,
             amount |-> Val(amount),
             type |-> Val(type),
             description |-> description,
             transaction_date |-> Val(transaction_date),
             category_id |-> Val(category_id)]
        changed ==
            [db EXCEPT !.transactions = (@ \ {row}) \cup {updated}]
    IN  IF db_transaction = None
        THEN Reply(db, HTTP_NOT_FOUND, "Transaction not found", None)
        ELSE IF CategoryUnresolved(db, update_data)
        THEN Reply(db, HTTP_BAD_REQUEST, "Category not found", None)
        ELSE IF not_null /\ IntegrityOK(changed)
        THEN Reply(changed, HTTP_OK, "", Some(updated))
        ELSE Reply([db EXCEPT !.transactions = @ \ {row}], HTTP_BAD_REQUEST,
                   "Database error", None)

\* update_data is model_dump(exclude_unset=True): a function from the
\* supplied field names to Optional values
update_transaction(db, transaction_id, update_data) ==
    LET db_transaction == get_transaction(db, transaction_id)
        row == Val(db_transaction)
        \* for field, value in update_data.items(): setattr(...)
        attr(field, old) ==
            IF field \in DOMAIN update_data THEN update_data[field] ELSE old
        amount == attr("amount", Some(row.amount))
        type == attr("type", Some(row.type))
        description == attr("description", row.description)
        transaction_date == attr("transaction_date", Some(row.transaction_date))
        category_id == attr("category_id", Some(row.category_id))
        \* amount, type, transaction_date, category_id are nullable=False
        not_null ==
            /\ amount # None /\ type # None
            /\ transaction_date # None /\ category_id # None
        updated ==
            [transaction_id |-> row.transaction_id,
             amount |-> Val(amount),
             type |-> Val(type),
             description |-> description,
             transaction_date |-> Val(transaction_date),
             category_id |-> Val(category_id)]
        changed ==
            [db EXCEPT !.transactions = (@ \ {row}) \cup {updated}]
    IN  IF db_transaction = None
        THEN Reply(db, HTTP_NOT_FOUND, "Transaction not found", None)
        ELSE IF CategoryUnresolved(db, update_data)
        THEN Reply(db, HTTP_BAD_REQUEST, "Category not found", None)
        ELSE IF not_null /\ IntegrityOK(changed)
        THEN Reply(changed, HTTP_OK, "", Some(updated))
        ELSE Reply(db, HTTP_BAD_REQUEST, "Database error", None)

\* success is reported and the row stays
delete_transaction_Mutant(db, transaction_id) ==
    IF get_transaction(db, transaction_id) = None
    THEN Reply(db, HTTP_NOT_FOUND, "Transaction not found", None)
    ELSE Reply(db, HTTP_OK, "", None)

delete_transaction(db, transaction_id) ==
    LET db_transaction == get_transaction(db, transaction_id)
    IN  IF db_transaction = None
        THEN Reply(db, HTTP_NOT_FOUND, "Transaction not found", None)
        ELSE Reply([db EXCEPT !.transactions = @ \ {Val(db_transaction)}],
                   HTTP_OK, "", None)

-----------------------------------------------------------------------------
(* Budget CRUD (src/app/crud.py).                                          *)

\* the type of the category is not looked at
NotExpense_Mutant(category) == FALSE

\* category.type != 'EXPENSE'
NotExpense(category) == category.type # "EXPENSE"

\* the period of an existing budget is left as it was
UpdateExisting_Mutant(existing, budget) ==
    [existing EXCEPT !.amount = budget.amount]

\* existing.amount = budget.amount; existing.period = budget.period
UpdateExisting(existing, budget) ==
    [existing EXCEPT !.amount = budget.amount, !.period = budget.period]

create_or_update_budget(db, budget) ==
    LET category == get_category(db, budget.category_id)
        found == {b \in db.budgets : b.category_id = budget.category_id}
        existing == CHOOSE b \in found : TRUE
        updated == UpdateExisting(existing, budget)
        db_budget ==
            [budget_id |-> NextId({b.budget_id : b \in db.budgets}),
             category_id |-> budget.category_id,
             amount |-> budget.amount,
             period |-> budget.period]
        replaced == [db EXCEPT !.budgets = (@ \ {existing}) \cup {updated}]
        added == [db EXCEPT !.budgets = @ \cup {db_budget}]
    IN  IF category = None
        THEN Reply(db, HTTP_BAD_REQUEST, "Category not found", None)
        ELSE IF NotExpense(Val(category))
        THEN Reply(db, HTTP_BAD_REQUEST,
                   "Budgets can only be set for expense categories", None)
        ELSE IF found # {}
        \* this commit is outside the try: an IntegrityError is not caught
        THEN IF IntegrityOK(replaced)
             THEN Reply(replaced, HTTP_OK, "", Some(updated))
             ELSE Reply(db, HTTP_INTERNAL_ERROR, "Internal Server Error", None)
        ELSE IF IntegrityOK(added)
        THEN Reply(added, HTTP_OK, "", Some(db_budget))
        ELSE Reply(db, HTTP_BAD_REQUEST, "Database error", None)

-----------------------------------------------------------------------------
(* The routes of src/app/main.py: validation of the request, then the CRUD *)
(* function, then the route's status code.                                 *)

Invalid(db, errors) ==
    Reply(db, HTTP_UNPROCESSABLE, "validation error", errors)

\* status_code=status.HTTP_201_CREATED of the POST routes
Created(r) == IF r.status = HTTP_OK THEN [r EXCEPT !.status = HTTP_CREATED] ELSE r

\* GET /health: connected is whether db.execute(text("SELECT 1")) succeeds
health_check(db, connected) ==
    IF connected
    THEN Reply(db, HTTP_OK, "", [status |-> "healthy", database |-> "connected"])
    ELSE Reply(db, HTTP_SERVICE_UNAVAILABLE, "Database connection failed", None)

main_create_category(db, category) ==
    IF CategoryCreateErrors(category) # {}
    THEN Invalid(db, CategoryCreateErrors(category))
    ELSE Created(create_category(db, category))

main_create_transaction(db, transaction) ==
    IF TransactionCreateErrors(transaction) # {}
    THEN Invalid(db, TransactionCreateErrors(transaction))
    ELSE Created(create_transaction(db, transaction))

main_update_transaction(db, transaction_id, transaction_update) ==
    IF TransactionUpdateErrors(transaction_update) # {}
    THEN Invalid(db, TransactionUpdateErrors(transaction_update))
    ELSE update_transaction(db, transaction_id, transaction_update)

main_delete_transaction(db, transaction_id) ==
    delete_transaction(db, transaction_id)

main_create_budget(db, request) ==
    IF BudgetCreateErrors(request) # {}
    THEN Invalid(db, BudgetCreateErrors(request))
    ELSE Created(create_or_update_budget(db, BudgetCreate(request)))

-----------------------------------------------------------------------------
(* Requests the model sends.                                               *)

CategoryIds == 1 .. MaxCategories
\* an id no category ever has in the model
MissingCategoryId == MaxCategories + 1
TransactionIds == 1 .. MaxTransactions
MissingTransactionId == MaxTransactions + 1

\* the ids of the rows stay within the bounds of the model
WithinBounds(db) ==
    /\ \A c \in db.categories : c.category_id \in CategoryIds
    /\ \A t \in db.transactions : t.transaction_id \in TransactionIds
    /\ \A b \in db.budgets : b.budget_id \in CategoryIds
    /\ \A u \in db.users : u.user_id \in 1 .. MaxUsers

CategoryInputs ==
    [name : {"", "Food", "Salary"}, type : {"INCOME", "EXPENSE", "TRANSFER"}]

AmountInputs == {-1000, 0, 1000, 2004}
TypeInputs == {"INCOME", "EXPENSE", "TRANSFER"}
Jan31 == date(2024, 1, 31)

TransactionInputs ==
    [amount : AmountInputs, type : TypeInputs, description : {None},
     transaction_date : {Jan31},
     category_id : CategoryIds \cup {MissingCategoryId}]

\* partial updates: no field, one field (also null), or a category with
\* another field
UpdateInputs ==
    {<<>>}
    \cup {[amount |-> a] : a \in {None} \cup {Some(x) : x \in AmountInputs}}
    \cup {[type |-> t] : t \in {None} \cup {Some(x) : x \in TypeInputs}}
    \cup {[category_id |-> c] :
            c \in {None} \cup {Some(x) : x \in CategoryIds \cup {MissingCategoryId}}}
    \cup {[amount |-> Some(a), category_id |-> Some(c)] :
            a \in {0, 2004}, c \in {1, MissingCategoryId}}

-----------------------------------------------------------------------------
(* Actions: one per request.                                               *)

\* the request op was answered with reply r
Answer(op, r) ==
    /\ WithinBounds(r.db)
    /\ categories' = r.db.categories
    /\ transactions' = r.db.transactions
    /\ budgets' = r.db.budgets
    /\ users' = r.db.users
    /\ resp' = [op |-> op, status |-> r.status, detail |-> r.detail,
                body |-> r.body]
    /\ UNCHANGED <<today, utcnow, tokens, calls, sessions>>

CreateCategory(category) ==
    Answer("create_category", main_create_category(DB, category))

CreateTransaction(transaction) ==
    Answer("create_transaction", main_create_transaction(DB, transaction))

UpdateTransaction(transaction_id, transaction_update) ==
    Answer("update_transaction",
           main_update_transaction(DB, transaction_id, transaction_update))

DeleteTransaction(transaction_id) ==
    Answer("delete_transaction", main_delete_transaction(DB, transaction_id))

NoResponse == [op |-> "none", status |-> 0, detail |-> "", body |-> None]

Today0 == date(2024, 2, 15)

Init ==
    /\ categories = {}
    /\ transactions = {}
    /\ budgets = {}
    /\ users = {}
    /\ today = Today0
    /\ utcnow = 0
    /\ tokens = {}
    /\ calls = <<>>
    /\ sessions = <<>>
    /\ resp = NoResponse

Next ==
    \/ \E category \in CategoryInputs : CreateCategory(category)
    \/ \E transaction \in TransactionInputs : CreateTransaction(transaction)
    \/ \E id \in TransactionIds \cup {MissingTransactionId},
          update \in UpdateInputs : UpdateTransaction(id, update)
    \/ \E id \in TransactionIds \cup {MissingTransactionId} :
          DeleteTransaction(id)

Spec == Init /\ [][Next]_vars

-----------------------------------------------------------------------------
(* Categories with their budgets and transactions: budgets are upserted,   *)
(* categories are created and deleted, the seed script clears the tables.  *)

BudgetInputs ==
    [category_id : CategoryIds \cup {MissingCategoryId},
     amount : {0, 1000, 2004},
     period : {None, Some("WEEKLY"), Some("DAILY")}]

\* one transaction request per category
ExpenseInputs ==
    [amount : {1000}, type : {"EXPENSE"}, description : {None},
     transaction_date : {Jan31},
     category_id : CategoryIds \cup {MissingCategoryId}]

CreateBudget(request) ==
    Answer("create_budget", main_create_budget(DB, request))

DeleteCategory(category_id) ==
    Answer("delete_category", delete_category(DB, category_id))

\* seed_database, when transactions exist and the operator answers yes:
\* the commit that clears the three tables (the sample data the script
\* inserts afterwards is not modelled)
ClearData ==
    /\ transactions # {}
    /\ Answer("clear_data", Reply(clear_data(DB), 0, "", None))

NextBudget ==
    \/ \E category \in CategoryInputs : CreateCategory(category)
    \/ \E id \in CategoryIds \cup {MissingCategoryId} : DeleteCategory(id)
    \/ \E request \in BudgetInputs : CreateBudget(request)
    \/ \E transaction \in ExpenseInputs : CreateTransaction(transaction)
    \/ ClearData

SpecBudget == Init /\ [][NextBudget]_vars

-----------------------------------------------------------------------------
(* Listing transactions (src/app/crud.py get_transactions, and its route). *)

\* Python truthiness of an Optional[int] and of an Optional[str]:
\* "if category_id:" and "if transaction_type:"
TruthyInt(o) == o # None /\ Val(o) # 0
TruthyStr(o) == o # None /\ Val(o) # ""

\* the rows the filters of get_transactions keep
FilteredTransactions(db, start_date, end_date, category_id, transaction_type) ==
    {t \in db.transactions :
        /\ start_date # None => t.transaction_date >= Val(start_date)
        /\ end_date # None => t.transaction_date <= Val(end_date)
        /\ TruthyInt(category_id) => t.category_id = Val(category_id)
        /\ TruthyStr(transaction_type) => t.type = Val(transaction_type)}

\* ascending instead of descending
OrderByDateDesc_Mutant(rows) ==
    {s \in [1 .. Cardinality(rows) -> rows] :
        /\ \A i, j \in DOMAIN s : i # j => s[i] # s[j]
        /\ \A i, j \in DOMAIN s :
              i < j => s[i].transaction_date <= s[j].transaction_date}

\* ORDER BY transaction_date DESC: every order of the rows that is
\* non-increasing in the date (the store orders rows of one date as it likes)
OrderByDateDesc(rows) ==
    {s \in [1 .. Cardinality(rows) -> rows] :
        /\ \A i, j \in DOMAIN s : i # j => s[i] # s[j]
        /\ \A i, j \in DOMAIN s :
              i < j => s[i].transaction_date >= s[j].transaction_date}

\* OFFSET skip LIMIT limit
OffsetLimit(s, skip, limit) ==
    SubSeq(s, skip + 1, IF skip + limit < Len(s) THEN skip + limit ELSE Len(s))

\* the set of lists the query may return
get_transactions(db, skip, limit, start_date, end_date, category_id, transaction_type) ==
    {OffsetLimit(s, skip, limit) :
        s \in OrderByDateDesc(
                FilteredTransactions(db, start_date, end_date, category_id,
                                     transaction_type))}

\* Query(0, ge=0) and Query(100, ge=1, le=1000)
MinLimit == 1
MaxLimit == 1000
ListQueryErrors(skip, limit) ==
    {f \in {"skip"} : skip < 0}
    \cup {f \in {"limit"} : limit < MinLimit \/ limit > MaxLimit}

\* the set of replies the route may give
main_get_transactions(db, skip, limit, start_date, end_date, category_id, type) ==
    IF ListQueryErrors(skip, limit) # {}
    THEN {Invalid(db, ListQueryErrors(skip, limit))}
    ELSE {Reply(db, HTTP_OK, "", rows) :
            rows \in get_transactions(db, skip, limit, start_date, end_date,
                                      category_id, type)}

-----------------------------------------------------------------------------
(* Analytics (src/app/crud.py).                                            *)

\* the integer nearest to p / q (q > 0), a tie going to the even one
RoundHalfEven(p, q) ==
    LET floor == p \div q
        rest == p % q
    IN  IF 2 * rest < q THEN floor
        ELSE IF 2 * rest > q THEN floor + 1
        ELSE IF floor % 2 = 0 THEN floor ELSE floor + 1

\* round(x, 2) of an amount counted in thousandths
round2(x) == 10 * RoundHalfEven(x, 10)

\* sum(t.amount for t in rows)
Total(rows) == SumOver(rows, [t \in rows |-> t.amount])

\* transactions = query.all() and the two sums over it, before rounding
summary_totals(db, start_date, end_date) ==
    LET rows == {t \in db.transactions :
                    /\ start_date # None => t.transaction_date >= Val(start_date)
                    /\ end_date # None => t.transaction_date <= Val(end_date)}
    IN  [total_income |-> Total({t \in rows : t.type = "INCOME"}),
         total_expenses |-> Total({t \in rows : t.type = "EXPENSE"}),
         transaction_count |-> Cardinality(rows)]

get_summary(db, start_date, end_date) ==
    LET totals == summary_totals(db, start_date, end_date)
    IN  [total_income |-> round2(totals.total_income),
         total_expenses |-> round2(totals.total_expenses),
         balance |-> round2(totals.total_income - totals.total_expenses),
         transaction_count |-> totals.transaction_count]

main_get_summary(db, start_date, end_date) ==
    Reply(db, HTTP_OK, "", get_summary(db, start_date, end_date))

\* db.query(func.sum(Transaction.amount)).filter(...).scalar(): NULL when no
\* row matches
func_sum(rows) == IF rows = {} THEN None ELSE Some(Total(rows))

\* x or 0.0
OrZero(o) == IF o = None \/ Val(o) = 0 THEN 0 ELSE Val(o)

\* the balance is taken from the rounded totals
get_balance_Mutant(db) ==
    LET income == OrZero(func_sum({t \in db.transactions : t.type = "INCOME"}))
        expenses ==
            OrZero(func_sum({t \in db.transactions : t.type = "EXPENSE"}))
    IN  [balance |-> round2(income) - round2(expenses),
         total_income |-> round2(income),
         total_expenses |-> round2(expenses)]

get_balance(db) ==
    LET income == OrZero(func_sum({t \in db.transactions : t.type = "INCOME"}))
        expenses ==
            OrZero(func_sum({t \in db.transactions : t.type = "EXPENSE"}))
    IN  [balance |-> round2(income - expenses),
         total_income |-> round2(income),
         total_expenses |-> round2(expenses)]

main_get_balance(db) == Reply(db, HTTP_OK, "", get_balance(db))

\* SELECT category_id, name, type, sum(amount), count(transaction_id) FROM
\* transactions JOIN categories ... GROUP BY category_id, name, type; the
\* order of the groups is the store's, so the result is the set of entries
\* the type filter is applied to the type of the category
breakdown_results_Mutant(db, start_date, end_date, transaction_type) ==
    LET joined ==
            {pair \in db.transactions \X db.categories :
                /\ pair[1].category_id = pair[2].category_id
                /\ start_date # None =>
                      pair[1].transaction_date >= Val(start_date)
                /\ end_date # None =>
                      pair[1].transaction_date <= Val(end_date)
                /\ TruthyStr(transaction_type) =>
                      pair[2].type = Val(transaction_type)}
        groups ==
            {<<pair[1].category_id, pair[2].name, pair[2].type>> :
                pair \in joined}
        rows(g) ==
            {pair[1] : pair \in
                {q \in joined :
                    <<q[1].category_id, q[2].name, q[2].type>> = g}}
    IN  {<<g[1], g[2], g[3], Total(rows(g)), Cardinality(rows(g))>> :
            g \in groups}

\* results = query.group_by(...).all(): rows of category_id, name, type,
\* total, count
breakdown_results(db, start_date, end_date, transaction_type) ==
    LET joined ==
            {pair \in db.transactions \X db.categories :
                /\ pair[1].category_id = pair[2].category_id
                /\ start_date # None =>
                      pair[1].transaction_date >= Val(start_date)
                /\ end_date # None =>
                      pair[1].transaction_date <= Val(end_date)
                /\ TruthyStr(transaction_type) =>
                      pair[1].type = Val(transaction_type)}
        groups ==
            {<<pair[1].category_id, pair[2].name, pair[2].type>> :
                pair \in joined}
        rows(g) ==
            {pair[1] : pair \in
                {q \in joined :
                    <<q[1].category_id, q[2].name, q[2].type>> = g}}
    IN  {<<g[1], g[2], g[3], Total(rows(g)), Cardinality(rows(g))>> :
            g \in groups}

get_category_breakdown(db, start_date, end_date, transaction_type) ==
    {[category_id |-> r[1],
      category_name |-> r[2],
      type |-> r[3],
      total_amount |-> round2(r[4]),
      transaction_count |-> r[5]] :
        r \in breakdown_results(db, start_date, end_date, transaction_type)}

main_get_category_breakdown(db, start_date, end_date, type) ==
    Reply(db, HTTP_OK, "",
          get_category_breakdown(db, start_date, end_date, type))

\* over budget as soon as the budget is used up
IsOverBudget_Mutant(spent, amount) == spent >= amount

\* is_over_budget=spent > budget.amount
IsOverBudget(spent, amount) == spent > amount

IsLeap(year) ==
    (year % 4 = 0 /\ year % 100 # 0) \/ year % 400 = 0

\* February always has 28 days
monthrange_Mutant(year, month) ==
    IF month = 2 THEN 28
    ELSE IF month \in {4, 6, 9, 11} THEN 30 ELSE 31

\* calendar.monthrange(year, month)[1]
monthrange(year, month) ==
    IF month = 2 THEN (IF IsLeap(year) THEN 29 ELSE 28)
    ELSE IF month \in {4, 6, 9, 11} THEN 30 ELSE 31

\* the result has one entry per budget row; the order of the rows is the
\* store's, so the result is given as the set of its entries
\* a request with one bound is answered for the current month
default_range_Mutant(start, end, now) ==
    IF start = None \/ end = None
    THEN <<date(YearOf(now), MonthOf(now), 1),
           date(YearOf(now), MonthOf(now),
                monthrange(YearOf(now), MonthOf(now)))>>
    ELSE <<Val(start), Val(end)>>

\* if start_date is None or end_date is None: start_date = start_date or
\* date(today.year, today.month, 1); end_date = end_date or date(today.year,
\* today.month, last_day)
default_range(start, end, now) ==
    <<IF start = None THEN date(YearOf(now), MonthOf(now), 1) ELSE Val(start),
      IF end = None
      THEN date(YearOf(now), MonthOf(now), monthrange(YearOf(now), MonthOf(now)))
      ELSE Val(end)>>

\* spent sums the EXPENSE transactions only
get_budgets_with_status_Mutant(db, start, end, now) ==
    LET start_date == default_range(start, end, now)[1]
        end_date == default_range(start, end, now)[2]
        status(budget) ==
            LET category == get_category(db, budget.category_id)
                spent == Total({t \in db.transactions :
                                  /\ t.category_id = budget.category_id
                                  /\ t.type = "EXPENSE"
                                  /\ t.transaction_date >= start_date
                                  /\ t.transaction_date <= end_date})
                remaining == budget.amount - spent
                \* spent / budget.amount * 100, rounded to one decimal
                percentage ==
                    IF budget.amount > 0
                    THEN RoundHalfEven(spent * 1000, budget.amount)
                    ELSE 0
            IN  [budget_id |-> budget.budget_id,
                 category_id |-> budget.category_id,
                 category_name |->
                    IF category # None THEN Val(category).name ELSE "Unknown",
                 budget_amount |-> budget.amount,
                 spent_amount |-> round2(spent),
                 remaining |-> round2(remaining),
                 percentage_used |-> percentage,
                 is_over_budget |-> IsOverBudget(spent, budget.amount)]
    IN  {status(budget) : budget \in db.budgets}

get_budgets_with_status(db, start, end, now) ==
    LET start_date == default_range(start, end, now)[1]
        end_date == default_range(start, end, now)[2]
        status(budget) ==
            LET category == get_category(db, budget.category_id)
                spent == Total({t \in db.transactions :
                                  /\ t.category_id = budget.category_id
                                  /\ t.transaction_date >= start_date
                                  /\ t.transaction_date <= end_date})
                remaining == budget.amount - spent
                \* spent / budget.amount * 100, rounded to one decimal
                percentage ==
                    IF budget.amount > 0
                    THEN RoundHalfEven(spent * 1000, budget.amount)
                    ELSE 0
            IN  [budget_id |-> budget.budget_id,
                 category_id |-> budget.category_id,
                 category_name |->
                    IF category # None THEN Val(category).name ELSE "Unknown",
                 budget_amount |-> budget.amount,
                 spent_amount |-> round2(spent),
                 remaining |-> round2(remaining),
                 percentage_used |-> percentage,
                 is_over_budget |-> IsOverBudget(spent, budget.amount)]
    IN  {status(budget) : budget \in db.budgets}

main_get_budgets(db, start_date, end_date, now) ==
    Reply(db, HTTP_OK, "", get_budgets_with_status(db, start_date, end_date, now))

\* strftime('%B')
MonthName(month) ==
    <<"January", "February", "March", "April", "May", "June", "July",
      "August", "September", "October", "November", "December">>[month]

RECURSIVE WrapMonth_Mutant(_, _)
\* the year is not stepped back
WrapMonth_Mutant(month, year) ==
    IF month <= 0 THEN WrapMonth_Mutant(month + 12, year) ELSE <<month, year>>

RECURSIVE WrapMonth(_, _)
\* while month <= 0: month += 12; year -= 1
WrapMonth(month, year) ==
    IF month <= 0 THEN WrapMonth(month + 12, year - 1) ELSE <<month, year>>

get_monthly_trend(db, months, now) ==
    LET entry(i) ==
            LET wrapped == WrapMonth(MonthOf(now) - i, YearOf(now))
                month == wrapped[1]
                year == wrapped[2]
                month_start == date(year, month, 1)
                month_end == date(year, month, monthrange(year, month))
                rows == {t \in db.transactions :
                            /\ t.transaction_date >= month_start
                            /\ t.transaction_date <= month_end}
                income == Total({t \in rows : t.type = "INCOME"})
                expenses == Total({t \in rows : t.type = "EXPENSE"})
            IN  [month |-> MonthName(month),
                 year |-> year,
                 income |-> round2(income),
                 expenses |-> round2(expenses),
                 balance |-> round2(income - expenses)]
    \* for i in range(months - 1, -1, -1): results.append(...)
    IN  [k \in 1 .. months |-> entry(months - k)]

\* Query(6, ge=1, le=24)
MinMonths == 1
MaxMonths == 24
main_get_monthly_trend(db, months, now) ==
    IF months < MinMonths \/ months > MaxMonths
    THEN Invalid(db, {"months"})
    ELSE Reply(db, HTTP_OK, "", get_monthly_trend(db, months, now))

-----------------------------------------------------------------------------
(* Registration (src/app/auth.py, src/app/main.py).                        *)

\* SECRET_KEY[:16]
Salt == "your-secret-key-"

\* hashlib.sha256(...).hexdigest(): the digest is kept as the tagged input
sha256(text) == <<"sha256", text>>

hash_password(password) == sha256(Salt \o password)

ACCESS_TOKEN_EXPIRE_MINUTES == 1440

\* jwt.encode({"sub": ..., "exp": ...}, SECRET_KEY): the claims and the key
\* that signed them; issued (datetime.utcnow()) and expires_delta are in
\* minutes
create_access_token(sub, expires_delta, issued) ==
    [sub |-> sub, exp |-> issued + expires_delta, key |-> "SECRET_KEY"]

\* the expiry is not looked at
decode_token_Mutant(token, now) ==
    IF token.key = "SECRET_KEY"
    THEN Some([sub |-> token.sub, exp |-> token.exp])
    ELSE None

\* jwt.decode(token, SECRET_KEY): the payload of a token signed with the key
\* whose exp has not passed at time now (jose: expired when exp < now)
decode_token(token, now) ==
    IF token.key = "SECRET_KEY" /\ ~(token.exp < now)
    THEN Some([sub |-> token.sub, exp |-> token.exp])
    ELSE None

get_user_by_username(db, username) ==
    LET found == {u \in db.users : u.username = username}
    IN IF found = {} THEN None ELSE Some(CHOOSE u \in found : TRUE)

get_user_by_email(db, email) ==
    LET found == {u \in db.users : u.email = email}
    IN IF found = {} THEN None ELSE Some(CHOOSE u \in found : TRUE)

\* every password is accepted
verify_password_Mutant(plain_password, hashed_password) == TRUE

verify_password(plain_password, hashed_password) ==
    hash_password(plain_password) = hashed_password

authenticate_user(db, username, password) ==
    LET user == get_user_by_username(db, username)
    IN  IF user = None THEN None
        ELSE IF ~verify_password(password, Val(user).hashed_password) THEN None
        ELSE user

\* the user of the token, or 401; a token always carries a sub here
get_current_user_required(db, token, now) ==
    LET payload == decode_token(token, now)
        user == get_user_by_username(db, Val(payload).sub)
    IN  IF payload = None \/ user = None
        THEN Reply(db, HTTP_UNAUTHORIZED, "Could not validate credentials",
                   None)
        ELSE Reply(db, HTTP_OK, "", user)

\* the email is checked before the username
create_user_Mutant(db, username, email, password) ==
    LET db_user ==
            [user_id |-> NextId({u.user_id : u \in db.users}),
             username |-> username,
             email |-> email,
             hashed_password |-> hash_password(password)]
        added == [db EXCEPT !.users = @ \cup {db_user}]
    IN  IF get_user_by_email(db, email) # None
        THEN Reply(db, HTTP_BAD_REQUEST, "Email already registered", None)
        ELSE IF get_user_by_username(db, username) # None
        THEN Reply(db, HTTP_BAD_REQUEST, "Username already registered", None)
        ELSE IF IntegrityOK(added)
        THEN Reply(added, HTTP_OK, "", Some(db_user))
        ELSE Reply(db, HTTP_INTERNAL_ERROR, "Internal Server Error", None)

create_user(db, username, email, password) ==
    LET db_user ==
            [user_id |-> NextId({u.user_id : u \in db.users}),
             username |-> username,
             email |-> email,
             hashed_password |-> hash_password(password)]
        added == [db EXCEPT !.users = @ \cup {db_user}]
    IN  IF get_user_by_username(db, username) # None
        THEN Reply(db, HTTP_BAD_REQUEST, "Username already registered", None)
        ELSE IF get_user_by_email(db, email) # None
        THEN Reply(db, HTTP_BAD_REQUEST, "Email already registered", None)
        \* the commit is outside any try: an IntegrityError is not caught
        ELSE IF IntegrityOK(added)
        THEN Reply(added, HTTP_OK, "", Some(db_user))
        ELSE Reply(db, HTTP_INTERNAL_ERROR, "Internal Server Error", None)

\* UserCreate: username min_length=3, password min_length=6
MinUsernameLength == 3
MinPasswordLength == 6
UserCreateErrors(user_data) ==
    {f \in {"username"} : Len(user_data.username) < MinUsernameLength}
    \cup {f \in {"password"} : Len(user_data.password) < MinPasswordLength}

main_register(db, user_data, issued) ==
    LET created == create_user(db, user_data.username, user_data.email,
                               user_data.password)
        user == Val(created.body)
    IN  IF UserCreateErrors(user_data) # {}
        THEN Invalid(db, UserCreateErrors(user_data))
        ELSE IF created.status # HTTP_OK THEN created
        ELSE Reply(created.db, HTTP_CREATED, "",
                   [access_token |->
                        create_access_token(user.username,
                                            ACCESS_TOKEN_EXPIRE_MINUTES, issued),
                    user |-> user])

main_login(db, username, password, issued) ==
    LET user == authenticate_user(db, username, password)
    IN  IF user = None
        THEN Reply(db, HTTP_UNAUTHORIZED, "Incorrect username or password",
                   None)
        ELSE Reply(db, HTTP_OK, "",
                   [access_token |->
                        create_access_token(Val(user).username,
                                            ACCESS_TOKEN_EXPIRE_MINUTES, issued),
                    user |-> Val(user)])

\* GET /auth/me
main_get_current_user_info(db, token, now) ==
    get_current_user_required(db, token, now)

-----------------------------------------------------------------------------
(* The queries, on stores drawn from bounded sets of rows.                 *)

Feb01 == date(2024, 2, 1)
Feb15 == date(2024, 2, 15)
Feb29 == date(2024, 2, 29)

\* two of the categories the application seeds
SeedCategories ==
    {[category_id |-> 1, name |-> "Salary", type |-> "INCOME"],
     [category_id |-> 2, name |-> "Food", type |-> "EXPENSE"]}

\* the tables of up to MaxTransactions rows taken from Rows, keyed 1, 2, ...
TransactionTables(Rows) ==
    UNION {
        {{[transaction_id |-> i,
           amount |-> f[i].amount,
           type |-> f[i].type,
           description |-> f[i].description,
           transaction_date |-> f[i].transaction_date,
           category_id |-> f[i].category_id] : i \in 1 .. n}
         : f \in [1 .. n -> Rows]}
        : n \in 0 .. MaxTransactions}

\* a query changes nothing: its reply is recorded
Query(op, r) ==
    /\ r.db = DB
    /\ resp' = [op |-> op, status |-> r.status, detail |-> r.detail,
                body |-> r.body]
    /\ UNCHANGED <<categories, transactions, budgets, users, today, utcnow,
                   tokens, calls, sessions>>

\* the type of a transaction is not tied to the type of its category
ListRows ==
    {row \in [amount : {1000}, type : CategoryTypes, description : {None},
              transaction_date : {Jan31, Feb01, Feb29}, category_id : {1, 2}] :
        ~(row.type = "EXPENSE" /\ row.category_id = 1)}

SkipInputs == {-1, 0, 1}
LimitInputs == {0, 1, 2, MaxLimit, MaxLimit + 1}
DateFilterInputs == {None, Some(Feb01)}
CategoryFilterInputs == {None, Some(0), Some(1), Some(MissingCategoryId)}
TypeFilterInputs == {None, Some(""), Some("INCOME"), Some("TRANSFER")}

ListTransactions(skip, limit, start_date, end_date, category_id, type) ==
    \E r \in main_get_transactions(DB, skip, limit, start_date, end_date,
                                   category_id, type) :
        Query("list_transactions", r)

InitList ==
    /\ categories = SeedCategories
    /\ transactions \in TransactionTables(ListRows)
    /\ budgets = {}
    /\ users = {}
    /\ today = Today0
    /\ utcnow = 0
    /\ tokens = {}
    /\ calls = <<>>
    /\ sessions = <<>>
    /\ resp = NoResponse

NextList ==
    \E skip \in SkipInputs, limit \in LimitInputs,
       start_date \in DateFilterInputs, end_date \in DateFilterInputs,
       category_id \in CategoryFilterInputs, type \in TypeFilterInputs :
        ListTransactions(skip, limit, start_date, end_date, category_id, type)

SpecList == InitList /\ [][NextList]_vars

AnalyticsRows ==
    [amount : {996, 1004}, type : CategoryTypes, description : {None},
     transaction_date : {Jan31, Feb15}, category_id : {1, 2}]

\* no budget, or one budget on the EXPENSE category
BudgetTables ==
    {{}} \cup {{[budget_id |-> 1, category_id |-> 2, amount |-> a,
                 period |-> "MONTHLY"]} : a \in {996, 1000}}

RangeInputs == {None, Some(Jan31), Some(Feb01), Some(Feb15)}

Summary(start_date, end_date) ==
    Query("summary", main_get_summary(DB, start_date, end_date))

BudgetsWithStatus(start_date, end_date) ==
    Query("budgets_with_status",
          main_get_budgets(DB, start_date, end_date, today))

InitAnalytics ==
    /\ categories = SeedCategories
    /\ transactions \in TransactionTables(AnalyticsRows)
    /\ budgets \in BudgetTables
    /\ users = {}
    /\ today = Today0
    /\ utcnow = 0
    /\ tokens = {}
    /\ calls = <<>>
    /\ sessions = <<>>
    /\ resp = NoResponse

CategoryBreakdown(start_date, end_date, type) ==
    Query("category_breakdown",
          main_get_category_breakdown(DB, start_date, end_date, type))

Balance == Query("balance", main_get_balance(DB))

NextAnalytics ==
    \/ \E start_date \in RangeInputs, end_date \in RangeInputs :
          Summary(start_date, end_date)
    \/ Balance
    \/ \E start_date \in RangeInputs, end_date \in RangeInputs :
          BudgetsWithStatus(start_date, end_date)
    \/ \E start_date \in RangeInputs, end_date \in RangeInputs,
          type \in TypeFilterInputs :
          CategoryBreakdown(start_date, end_date, type)

SpecAnalytics == InitAnalytics /\ [][NextAnalytics]_vars

\* budgets of the current month: expenses on the first and the last days of
\* three months and on the days around them
MonthRows ==
    [amount : {1000}, type : {"EXPENSE"}, description : {None},
     transaction_date :
        {Jan31, Feb01, Feb29, date(2024, 3, 1),
         date(2023, 2, 28), date(2023, 3, 1),
         date(2024, 12, 1), date(2024, 12, 31), date(2025, 1, 1)},
     category_id : {2}]

MonthTodayInputs == {Feb15, date(2023, 2, 10), date(2024, 12, 31)}

InitMonth ==
    /\ categories = SeedCategories
    /\ transactions \in TransactionTables(MonthRows)
    /\ budgets = {[budget_id |-> 1, category_id |-> 2, amount |-> 1000,
                   period |-> "MONTHLY"]}
    /\ users = {}
    /\ today \in MonthTodayInputs
    /\ utcnow = 0
    /\ tokens = {}
    /\ calls = <<>>
    /\ sessions = <<>>
    /\ resp = NoResponse

NextMonth ==
    \E start_date \in {None, Some(Feb01)}, end_date \in {None, Some(Feb29)} :
        BudgetsWithStatus(start_date, end_date)

SpecMonth == InitMonth /\ [][NextMonth]_vars

TrendRows ==
    [amount : {1004}, type : CategoryTypes, description : {None},
     transaction_date : {date(2023, 12, 31), date(2024, 1, 1), Feb29},
     category_id : {1}]

TodayInputs ==
    {date(2024, 1, 31), Feb15, date(2024, 12, 1), date(2025, 3, 31)}

MonthlyTrend(months) ==
    Query("monthly_trend", main_get_monthly_trend(DB, months, today))

InitTrend ==
    /\ categories = SeedCategories
    /\ transactions \in TransactionTables(TrendRows)
    /\ budgets = {}
    /\ users = {}
    /\ today \in TodayInputs
    /\ utcnow = 0
    /\ tokens = {}
    /\ calls = <<>>
    /\ sessions = <<>>
    /\ resp = NoResponse

NextTrend ==
    \E months \in (MinMonths - 1) .. (MaxMonths + 1) : MonthlyTrend(months)

SpecTrend == InitTrend /\ [][NextTrend]_vars

\* transactions of either type in either category, with a budget on the
\* EXPENSE category
MismatchInputs ==
    [amount : {1000, 2000}, type : CategoryTypes, description : {None},
     transaction_date : {Jan31, Feb15}, category_id : {1, 2}]

MismatchUpdates ==
    {[type |-> Some(x)] : x \in CategoryTypes}
    \cup {[category_id |-> Some(c)] : c \in {1, 2}}

InitMismatch ==
    /\ categories = SeedCategories
    /\ transactions = {}
    /\ budgets = {[budget_id |-> 1, category_id |-> 2, amount |-> 1000,
                   period |-> "MONTHLY"]}
    /\ users = {}
    /\ today = Today0
    /\ utcnow = 0
    /\ tokens = {}
    /\ calls = <<>>
    /\ sessions = <<>>
    /\ resp = NoResponse

NextMismatch ==
    \/ \E transaction \in MismatchInputs : CreateTransaction(transaction)
    \/ \E id \in TransactionIds, update \in MismatchUpdates :
          UpdateTransaction(id, update)
    \/ \E id \in TransactionIds : UpdateTransaction(id, [amount |-> None])
    \/ Summary(None, None)
    \/ MonthlyTrend(2)
    \/ BudgetsWithStatus(Some(Jan31), None)

SpecMismatch == InitMismatch /\ [][NextMismatch]_vars

-----------------------------------------------------------------------------
(* Registration requests.                                                  *)

UserInputs ==
    [username : {"al", "alice", "bob", "carol"},
     email : {"a@x.io", "b@x.io", "c@x.io"},
     password : {"pw", "secret1", "hunter22"}]

\* the reply r of register or login was given: a token it carries is now
\* held by a client
Issue(op, r) ==
    /\ WithinBounds(r.db)
    /\ categories' = r.db.categories
    /\ transactions' = r.db.transactions
    /\ budgets' = r.db.budgets
    /\ users' = r.db.users
    /\ resp' = [op |-> op, status |-> r.status, detail |-> r.detail,
                body |-> r.body]
    /\ tokens' = IF r.status \in {HTTP_OK, HTTP_CREATED}
                 THEN tokens \cup {r.body.access_token}
                 ELSE tokens
    /\ UNCHANGED <<today, utcnow, calls, sessions>>

Register(user_data) ==
    Issue("register", main_register(DB, user_data, utcnow))

LoginNames == {"alice", "bob", "zed"}
LoginPasswords == {"secret1", "hunter22", "wrong"}

Login(username, password) ==
    Issue("login", main_login(DB, username, password, utcnow))

NextAuth ==
    \/ \E user_data \in UserInputs : Register(user_data)
    \/ \E username \in LoginNames, password \in LoginPasswords :
          Login(username, password)

SpecAuth == Init /\ [][NextAuth]_vars

-----------------------------------------------------------------------------
(* Tokens over time.                                                       *)

\* the times, in minutes, the clock is read at after time 0
ClockInputs ==
    {1, ACCESS_TOKEN_EXPIRE_MINUTES, ACCESS_TOKEN_EXPIRE_MINUTES + 1,
     ACCESS_TOKEN_EXPIRE_MINUTES + 2}

\* time passes
Tick(now) ==
    /\ now > utcnow
    /\ utcnow' = now
    /\ UNCHANGED <<categories, transactions, budgets, users, today, resp,
                   tokens, calls, sessions>>

TokenUserInputs ==
    [username : {"alice", "bob"}, email : {"a@x.io", "b@x.io"},
     password : {"secret1"}]

\* tokens no client was issued: signed with another key, or for a username
\* nobody registers
OtherTokens ==
    {[sub |-> "alice", exp |-> ACCESS_TOKEN_EXPIRE_MINUTES + 2, key |-> "other"],
     [sub |-> "zed", exp |-> ACCESS_TOKEN_EXPIRE_MINUTES + 2,
      key |-> "SECRET_KEY"]}

GetCurrentUserInfo(token) ==
    Query("me", main_get_current_user_info(DB, token, utcnow))

NextToken ==
    \/ \E user_data \in TokenUserInputs : Register(user_data)
    \/ \E username \in {"alice", "bob"}, password \in {"secret1", "wrong"} :
          Login(username, password)
    \/ \E now \in ClockInputs : Tick(now)
    \/ \E token \in tokens \cup OtherTokens : GetCurrentUserInfo(token)

SpecToken == Init /\ [][NextToken]_vars

-----------------------------------------------------------------------------
(* Default categories at process start (src/app/crud.py, src/app/main.py). *)

default_categories ==
    <<[name |-> "Salary", type |-> "INCOME"],
      [name |-> "Freelance", type |-> "INCOME"],
      [name |-> "Investment", type |-> "INCOME"],
      [name |-> "Gift", type |-> "INCOME"],
      [name |-> "Other Income", type |-> "INCOME"],
      [name |-> "Food & Dining", type |-> "EXPENSE"],
      [name |-> "Transportation", type |-> "EXPENSE"],
      [name |-> "Utilities", type |-> "EXPENSE"],
      [name |-> "Rent", type |-> "EXPENSE"],
      [name |-> "Entertainment", type |-> "EXPENSE"],
      [name |-> "Shopping", type |-> "EXPENSE"],
      [name |-> "Healthcare", type |-> "EXPENSE"],
      [name |-> "Education", type |-> "EXPENSE"],
      [name |-> "Travel", type |-> "EXPENSE"],
      [name |-> "Other Expense", type |-> "EXPENSE"]>>

\* for cat_data in default_categories: db.add(...); then one commit, which
\* is not in a try
add_default_categories(db) ==
    LET first == NextId({c.category_id : c \in db.categories})
        created ==
            [i \in 1 .. Len(default_categories) |->
                [category_id |-> first + i - 1,
                 name |-> default_categories[i].name,
                 type |-> default_categories[i].type]]
        added ==
            [db EXCEPT !.categories = @ \cup {created[i] : i \in DOMAIN created}]
    IN  IF IntegrityOK(added)
        THEN Reply(added, 0, "", created)
        ELSE Reply(db, HTTP_INTERNAL_ERROR, "IntegrityError", <<>>)

\* the defaults are added whatever the table holds
create_default_categories_Mutant(db) == add_default_categories(db)

create_default_categories(db) ==
    IF Cardinality(db.categories) > 0
    THEN Reply(db, 0, "", <<>>)
    ELSE add_default_categories(db)

startup_event(db) == create_default_categories(db)

\* the reply r was given; the tables hold at most MaxCategories categories
\* next to the defaults
Respond(op, r) ==
    /\ Cardinality(r.db.categories) <= Len(default_categories) + MaxCategories
    /\ categories' = r.db.categories
    /\ transactions' = r.db.transactions
    /\ budgets' = r.db.budgets
    /\ users' = r.db.users
    /\ resp' = [op |-> op, status |-> r.status, detail |-> r.detail,
                body |-> r.body]
    /\ UNCHANGED <<today, utcnow, tokens, calls, sessions>>

\* a process start, at any time
Startup == Respond("startup", startup_event(DB))

UserCategoryInputs ==
    [name : {"", "Pets", "Books", "Salary"},
     type : {"INCOME", "EXPENSE", "TRANSFER"}]

CreateUserCategory(category) ==
    Respond("create_category", main_create_category(DB, category))

NextSeed ==
    \/ Startup
    \/ \E category \in UserCategoryInputs : CreateUserCategory(category)

SpecSeed == Init /\ [][NextSeed]_vars

\* the operations that write categories, transactions and budgets, after
\* a process start or without one
RefIds == {0, 1, 6, Len(default_categories) + 1}

RefCategoryInputs ==
    {[name |-> "Pets", type |-> "EXPENSE"], [name |-> "Books", type |-> "EXPENSE"]}

RefTransactionInputs ==
    [amount : {1000}, type : {"EXPENSE"}, description : {None},
     transaction_date : {Jan31}, category_id : RefIds]

RefUpdateInputs ==
    {[category_id |-> None]} \cup {[category_id |-> Some(c)] : c \in RefIds}

RefBudgetInputs == [category_id : RefIds, amount : {1000}, period : {None}]

\* the reply r was given; at most MaxTransactions transactions are stored
Served(op, r) ==
    /\ \A t \in r.db.transactions : t.transaction_id \in TransactionIds
    /\ Respond(op, r)

NextIntegrity ==
    \/ Startup
    \/ \E category \in RefCategoryInputs : CreateUserCategory(category)
    \/ \E transaction \in RefTransactionInputs :
          Served("create_transaction", main_create_transaction(DB, transaction))
    \/ \E id \in TransactionIds, update \in RefUpdateInputs :
          Served("update_transaction", main_update_transaction(DB, id, update))
    \/ \E id \in TransactionIds :
          Served("delete_transaction", main_delete_transaction(DB, id))
    \/ \E request \in RefBudgetInputs :
          Served("create_budget", main_create_budget(DB, request))

SpecIntegrity == Init /\ [][NextIntegrity]_vars

-----------------------------------------------------------------------------
(* Concurrent requests. The routes are plain functions, which the          *)
(* framework runs on worker threads, each with the session get_db gives    *)
(* it; no lock is taken in src/app. A handler is followed statement by     *)
(* statement: every SELECT and every commit is one step, and the steps of  *)
(* different callers interleave freely.                                    *)

MaxCallers == 2
Callers == 1 .. MaxCallers

\* a caller with no request in progress
Idle == [pc |-> "idle", request |-> None, loaded |-> None, reply |-> None]

\* what the caller is answered
Response(r) == Some([status |-> r.status, detail |-> r.detail, body |-> r.body])

\* caller i moves to pc, the store becomes that of r
Proceed(i, pc, request, loaded, reply, db) ==
    /\ categories' = db.categories
    /\ transactions' = db.transactions
    /\ budgets' = db.budgets
    /\ users' = db.users
    /\ calls' = [calls EXCEPT ![i] = [pc |-> pc, request |-> request,
                                      loaded |-> loaded, reply |-> reply]]
    /\ UNCHANGED <<today, utcnow, resp, tokens, sessions>>

\* the handler of caller i ends with reply r
Finish(i, r) ==
    Proceed(i, "done", calls[i].request, calls[i].loaded, Response(r), r.db)

\* the UNIQUE constraint of budgets.category_id is not enforced
insert_budget_Mutant(db, budget) ==
    LET db_budget ==
            [budget_id |-> NextId({b.budget_id : b \in db.budgets}),
             category_id |-> budget.category_id,
             amount |-> budget.amount,
             period |-> budget.period]
    IN  Reply([db EXCEPT !.budgets = @ \cup {db_budget}], HTTP_OK, "",
              Some(db_budget))

\* try: db.add(db_budget); db.commit() except IntegrityError: db.rollback()
insert_budget(db, budget) ==
    LET db_budget ==
            [budget_id |-> NextId({b.budget_id : b \in db.budgets}),
             category_id |-> budget.category_id,
             amount |-> budget.amount,
             period |-> budget.period]
        added == [db EXCEPT !.budgets = @ \cup {db_budget}]
    IN  IF IntegrityOK(added)
        THEN Reply(added, HTTP_OK, "", Some(db_budget))
        ELSE Reply(db, HTTP_BAD_REQUEST, "Database error", None)

\* existing.amount = ...; existing.period = ...; db.commit(): the UPDATE
\* sets the attributes whose value differs from the one that was loaded, in
\* the row as it is now; db.refresh(existing) reads the row back
update_loaded_budget(db, existing, budget) ==
    LET current == CHOOSE b \in db.budgets : b.budget_id = existing.budget_id
        updated ==
            [current EXCEPT
                !.amount = IF budget.amount # existing.amount
                           THEN budget.amount ELSE @,
                !.period = IF budget.period # existing.period
                           THEN budget.period ELSE @]
        replaced == [db EXCEPT !.budgets = (@ \ {current}) \cup {updated}]
    IN  IF IntegrityOK(replaced)
        THEN Reply(replaced, HTTP_OK, "", Some(updated))
        ELSE Reply(db, HTTP_INTERNAL_ERROR, "Internal Server Error", None)

RaceBudgetInputs ==
    [category_id : {1, 2}, amount : {0, 1000, 2000},
     period : {None, Some("WEEKLY")}]

\* POST /budgets/ arrives: the body is validated
BudgetRequested(i, request) ==
    /\ calls[i].pc = "idle"
    /\ IF BudgetCreateErrors(request) # {}
       THEN Proceed(i, "done", Some(request), None,
                    Response(Invalid(DB, BudgetCreateErrors(request))), DB)
       ELSE Proceed(i, "get_category", Some(BudgetCreate(request)), None,
                    None, DB)

\* category = get_category(db, budget.category_id) and the two checks on it
BudgetGetCategory(i) ==
    /\ calls[i].pc = "get_category"
    /\ LET budget == Val(calls[i].request)
           category == get_category(DB, budget.category_id)
       IN  IF category = None
           THEN Finish(i, Reply(DB, HTTP_BAD_REQUEST, "Category not found",
                                None))
           ELSE IF NotExpense(Val(category))
           THEN Finish(i, Reply(DB, HTTP_BAD_REQUEST,
                                "Budgets can only be set for expense categories",
                                None))
           ELSE Proceed(i, "query_existing", calls[i].request, None, None, DB)

\* existing = db.query(models.Budget).filter(...).first()
BudgetQueryExisting(i) ==
    /\ calls[i].pc = "query_existing"
    /\ LET budget == Val(calls[i].request)
           found == {b \in budgets : b.category_id = budget.category_id}
       IN  IF found # {}
           THEN Proceed(i, "update", calls[i].request,
                        Some(CHOOSE b \in found : TRUE), None, DB)
           ELSE Proceed(i, "insert", calls[i].request, None, None, DB)

\* if existing: ... db.commit()
BudgetUpdate(i) ==
    /\ calls[i].pc = "update"
    /\ Finish(i, Created(update_loaded_budget(DB, Val(calls[i].loaded),
                                              Val(calls[i].request))))

\* db.add(db_budget); db.commit(), or the rollback
BudgetInsert(i) ==
    /\ calls[i].pc = "insert"
    /\ Finish(i, Created(insert_budget(DB, Val(calls[i].request))))

InitBudgetRace ==
    /\ categories = SeedCategories
    /\ transactions = {}
    /\ budgets = {}
    /\ users = {}
    /\ today = Today0
    /\ utcnow = 0
    /\ tokens = {}
    /\ resp = NoResponse
    /\ calls = [i \in Callers |-> Idle]
    /\ sessions = <<>>

NextBudgetRace ==
    \E i \in Callers :
        \/ \E request \in RaceBudgetInputs : BudgetRequested(i, request)
        \/ BudgetGetCategory(i)
        \/ BudgetQueryExisting(i)
        \/ BudgetUpdate(i)
        \/ BudgetInsert(i)

SpecBudgetRace == InitBudgetRace /\ [][NextBudgetRace]_vars

\* db.add(db_user); db.commit(): no try around it, an IntegrityError leaves
\* the handler as an unhandled exception and the framework answers 500
commit_user(db, username, email, password) ==
    LET db_user ==
            [user_id |-> NextId({u.user_id : u \in db.users}),
             username |-> username,
             email |-> email,
             hashed_password |-> hash_password(password)]
        added == [db EXCEPT !.users = @ \cup {db_user}]
    IN  IF IntegrityOK(added)
        THEN Reply(added, HTTP_CREATED, "",
                   [access_token |->
                        create_access_token(username,
                                            ACCESS_TOKEN_EXPIRE_MINUTES, utcnow),
                    user |-> db_user])
        ELSE Reply(db, HTTP_INTERNAL_ERROR, "Internal Server Error", None)

RaceUserInputs ==
    [username : {"al", "alice", "bob"}, email : {"a@x.io", "b@x.io"},
     password : {"secret1"}]

\* POST /auth/register arrives: the body is validated
RegisterRequested(i, user_data) ==
    /\ calls[i].pc = "idle"
    /\ IF UserCreateErrors(user_data) # {}
       THEN Proceed(i, "done", Some(user_data), None,
                    Response(Invalid(DB, UserCreateErrors(user_data))), DB)
       ELSE Proceed(i, "check_username", Some(user_data), None, None, DB)

\* if get_user_by_username(db, username): raise
RegisterCheckUsername(i) ==
    /\ calls[i].pc = "check_username"
    /\ IF get_user_by_username(DB, Val(calls[i].request).username) # None
       THEN Finish(i, Reply(DB, HTTP_BAD_REQUEST, "Username already registered",
                            None))
       ELSE Proceed(i, "check_email", calls[i].request, None, None, DB)

\* if get_user_by_email(db, email): raise
RegisterCheckEmail(i) ==
    /\ calls[i].pc = "check_email"
    /\ IF get_user_by_email(DB, Val(calls[i].request).email) # None
       THEN Finish(i, Reply(DB, HTTP_BAD_REQUEST, "Email already registered",
                            None))
       ELSE Proceed(i, "commit", calls[i].request, None, None, DB)

\* db.add(db_user); db.commit(), then the token of the response
RegisterCommit(i) ==
    /\ calls[i].pc = "commit"
    /\ LET user_data == Val(calls[i].request)
       IN  Finish(i, commit_user(DB, user_data.username, user_data.email,
                                 user_data.password))

InitRegisterRace ==
    /\ categories = {}
    /\ transactions = {}
    /\ budgets = {}
    /\ users = {}
    /\ today = Today0
    /\ utcnow = 0
    /\ tokens = {}
    /\ resp = NoResponse
    /\ calls = [i \in Callers |-> Idle]
    /\ sessions = <<>>

NextRegisterRace ==
    \E i \in Callers :
        \/ \E user_data \in RaceUserInputs : RegisterRequested(i, user_data)
        \/ RegisterCheckUsername(i)
        \/ RegisterCheckEmail(i)
        \/ RegisterCommit(i)

SpecRegisterRace == InitRegisterRace /\ [][NextRegisterRace]_vars

-----------------------------------------------------------------------------
(* Database sessions (src/app/database.py). A session is made by the       *)
(* generator get_db, which stays suspended at its yield while the caller   *)
(* uses the session and closes the session when it is resumed or           *)
(* finalised. Caller 0 is the startup event, which runs before any request *)
(* is served.                                                              *)

MaxSessions == 3
StartupCaller == 0

\* db = SessionLocal(); try: yield db
get_db == [state |-> "open", generator |-> "suspended"]

\* the session is closed only when the caller did not fail
get_db_exit_Mutant(session, raised) ==
    IF raised THEN [session EXCEPT !.generator = "finished"]
    ELSE [state |-> "closed", generator |-> "finished"]

\* finally: db.close(), entered when the generator is resumed, when the
\* caller's exception is thrown into it, and when it is finalised
get_db_exit(session, raised) == [state |-> "closed", generator |-> "finished"]

\* caller i moves to pc; r is the store and ss the sessions it leaves
Advance(i, pc, loaded, reply, db, ss) ==
    /\ categories' = db.categories
    /\ transactions' = db.transactions
    /\ budgets' = db.budgets
    /\ users' = db.users
    /\ calls' = [calls EXCEPT ![i] = [pc |-> pc, request |-> None,
                                      loaded |-> loaded, reply |-> reply]]
    /\ sessions' = ss
    /\ UNCHANGED <<today, utcnow, resp, tokens>>

\* the session of caller i
SessionOf(i) == Val(calls[i].loaded)

\* startup_event: db = next(get_db())
StartupOpen ==
    /\ calls[StartupCaller].pc = "idle"
    /\ Advance(StartupCaller, "seed", Some(Len(sessions) + 1), None, DB,
               Append(sessions, get_db))

\* the generator startup_event dropped after next() is finalised: at once
\* under reference counting, at some later time under another collector
Finalise ==
    /\ calls[StartupCaller].pc # "idle"
    /\ sessions[SessionOf(StartupCaller)].generator = "suspended"
    /\ sessions' =
          [sessions EXCEPT ![SessionOf(StartupCaller)] = get_db_exit(@, FALSE)]
    /\ UNCHANGED <<categories, transactions, budgets, users, today, utcnow,
                   resp, tokens, calls>>

\* crud.create_default_categories(db): a session that was closed begins a
\* new transaction when it is used
StartupSeed ==
    /\ calls[StartupCaller].pc = "seed"
    /\ LET r == startup_event(DB)
       IN  Advance(StartupCaller, "close", calls[StartupCaller].loaded,
                   Response([r EXCEPT !.body = None]), r.db,
                   [sessions EXCEPT ![SessionOf(StartupCaller)].state = "open"])

\* finally: db.close()
StartupClose ==
    /\ calls[StartupCaller].pc = "close"
    /\ Advance(StartupCaller, "done", calls[StartupCaller].loaded,
               calls[StartupCaller].reply, DB,
               [sessions EXCEPT ![SessionOf(StartupCaller)].state = "closed"])

\* a request arrives: Depends(get_db) enters the generator
OpenSession(i) ==
    /\ calls[StartupCaller].pc = "done"
    /\ calls[i].pc = "idle"
    /\ Len(sessions) < MaxSessions
    /\ Advance(i, "handler", Some(Len(sessions) + 1), None, DB,
               Append(sessions, get_db))

SessionCategoryInputs ==
    {[name |-> "Pets", type |-> "EXPENSE"],
     [name |-> "Salary", type |-> "INCOME"],
     [name |-> "", type |-> "EXPENSE"]}

\* the route of the request runs with the session and returns or raises
Handled(i, r) ==
    /\ calls[i].pc = "handler"
    /\ Cardinality(r.db.categories) <= Len(default_categories) + MaxCategories
    /\ Advance(i, "exit", calls[i].loaded, Response([r EXCEPT !.body = None]),
               r.db, sessions)

Handle(i) ==
    \/ \E category \in SessionCategoryInputs :
          Handled(i, main_create_category(DB, category))
    \/ \E connected \in BOOLEAN : Handled(i, health_check(DB, connected))

\* the framework leaves the dependency: the generator is resumed, or the
\* HTTPException of the route is thrown into it
CloseSession(i) ==
    /\ calls[i].pc = "exit"
    /\ Advance(i, "idle", None, None, DB,
               [sessions EXCEPT ![SessionOf(i)] =
                    get_db_exit(@, Val(calls[i].reply).status >= HTTP_BAD_REQUEST)])

InitSession ==
    /\ categories = {}
    /\ transactions = {}
    /\ budgets = {}
    /\ users = {}
    /\ today = Today0
    /\ utcnow = 0
    /\ tokens = {}
    /\ resp = NoResponse
    /\ calls = [i \in {StartupCaller} \cup Callers |-> Idle]
    /\ sessions = <<>>

NextSession ==
    \/ StartupOpen
    \/ Finalise
    \/ StartupSeed
    \/ StartupClose
    \/ \E i \in Callers : OpenSession(i)
    \/ \E i \in Callers : Handle(i)
    \/ \E i \in Callers : CloseSession(i)

SpecSession == InitSession /\ [][NextSession]_vars

\* a thread that runs a handler or the startup event goes on running: once
\* a session is open, the steps up to its close are taken
SpecSessionFair ==
    /\ SpecSession
    /\ WF_vars(StartupSeed)
    /\ WF_vars(StartupClose)
    /\ \A i \in Callers : WF_vars(Handle(i)) /\ WF_vars(CloseSession(i))

-----------------------------------------------------------------------------
(* The claims.                                                             *)

\* the transactions of table txs dated within [start_date, end_date], a
\* bound that is None not constraining
InRange(txs, start_date, end_date) ==
    {t \in txs :
        /\ start_date # None => t.transaction_date >= Val(start_date)
        /\ end_date # None => t.transaction_date <= Val(end_date)}

Elements(s) == {s[i] : i \in DOMAIN s}

\* C1: every stored transaction has amount > 0, and a create_transaction or
\* update_transaction request that supplies amount <= 0 is answered with a
\* validation error (422) and leaves the store as it was.
C1_AmountPositive ==
    /\ \A t \in transactions : t.amount > 0
    /\ \A transaction \in TransactionInputs :
          transaction.amount <= 0 =>
              LET r == main_create_transaction(DB, transaction)
              IN  r.status = HTTP_UNPROCESSABLE /\ r.db = DB
    /\ \A id \in TransactionIds \cup {MissingTransactionId},
          update \in UpdateInputs :
          (/\ "amount" \in DOMAIN update
           /\ update.amount # None
           /\ Val(update.amount) <= 0) =>
              LET r == main_update_transaction(DB, id, update)
              IN  r.status = HTTP_UNPROCESSABLE /\ r.db = DB

\* an update of an existing store with amount <= 0 was rejected
C1_Witness ==
    /\ resp.op = "update_transaction"
    /\ resp.status = HTTP_UNPROCESSABLE
    /\ "amount" \in resp.body
    /\ transactions # {}

\* C2: two successive create_or_update_budget calls for one EXPENSE category
\* leave exactly one budget row for it, with the id the first call returned
\* and the amount and period of the second call; with identical arguments the
\* second call leaves the store of the first.
C2_BudgetUpsert ==
    \A c \in categories :
        c.type = "EXPENSE" =>
            \A first, second \in
                    {b \in BudgetInputs :
                        b.category_id = c.category_id /\ b.amount > 0} :
                LET r1 == main_create_budget(DB, first)
                    r2 == main_create_budget(r1.db, second)
                    rows == {b \in r2.db.budgets :
                                b.category_id = c.category_id}
                IN  /\ r1.status = HTTP_CREATED
                    /\ r2.status = HTTP_CREATED
                    /\ Cardinality(rows) = 1
                    /\ \A b \in rows :
                          /\ b.budget_id = Val(r1.body).budget_id
                          /\ b.amount = second.amount
                          /\ b.period = IF second.period = None THEN "MONTHLY"
                                        ELSE Val(second.period)
                    /\ first = second => r2.db = r1.db

\* the last call updated the older of two budgets: it returned a row whose
\* id is not the highest
C2_Witness ==
    /\ resp.op = "create_budget"
    /\ resp.status = HTTP_CREATED
    /\ Val(resp.body) \in budgets
    /\ \E b \in budgets : b.budget_id > Val(resp.body).budget_id

\* C3: create_or_update_budget answers 400 and changes nothing when the
\* category does not exist or is not an EXPENSE category, and every budget
\* row belongs to an EXPENSE category.
C3_BudgetOnExpenseOnly ==
    /\ \A b \in budgets :
          \E c \in categories :
              c.category_id = b.category_id /\ c.type = "EXPENSE"
    /\ \A request \in BudgetInputs :
          (/\ request.amount > 0
           /\ ~ \E c \in categories :
                  c.category_id = request.category_id /\ c.type = "EXPENSE")
          => LET r == create_or_update_budget(DB, BudgetCreate(request))
             IN  r.status = HTTP_BAD_REQUEST /\ r.db = DB

\* a budget for an INCOME category was refused while budgets exist
C3_Witness ==
    /\ resp.op = "create_budget"
    /\ resp.status = HTTP_BAD_REQUEST
    /\ resp.detail = "Budgets can only be set for expense categories"
    /\ budgets # {}

Sorted(rows) ==
    \A i \in 1 .. Len(rows) - 1 :
        rows[i].transaction_date >= rows[i + 1].transaction_date

\* C4: for every filter combination, skip >= 0 and limit in [1, 1000] the
\* list is in non-increasing date order and has at most limit rows; any other
\* skip or limit is rejected.
C4_SortedAndLimited ==
    \A skip \in SkipInputs, limit \in LimitInputs,
       start_date \in DateFilterInputs, end_date \in DateFilterInputs,
       category_id \in CategoryFilterInputs, type \in TypeFilterInputs :
        \A r \in main_get_transactions(DB, skip, limit, start_date, end_date,
                                       category_id, type) :
            IF skip >= 0 /\ limit >= 1 /\ limit <= 1000
            THEN /\ r.status = HTTP_OK
                 /\ Sorted(r.body)
                 /\ Len(r.body) <= limit
            ELSE r.status = HTTP_UNPROCESSABLE

\* a list of two rows came back in date order against the order of insertion
C4_Witness ==
    /\ resp.op = "list_transactions"
    /\ resp.status = HTTP_OK
    /\ Len(resp.body) >= 2
    /\ resp.body[1].transaction_date > resp.body[2].transaction_date
    /\ resp.body[1].transaction_id > resp.body[2].transaction_id

\* C5: before pagination the list holds exactly the rows that satisfy every
\* supplied filter, a supplied filter being applied whatever its value.
C5_FiltersExact ==
    \A start_date \in DateFilterInputs, end_date \in DateFilterInputs,
       category_id \in CategoryFilterInputs, type \in TypeFilterInputs :
        \A r \in main_get_transactions(DB, 0, MaxLimit, start_date, end_date,
                                       category_id, type) :
            Elements(r.body) =
                {t \in InRange(transactions, start_date, end_date) :
                    /\ category_id # None => t.category_id = Val(category_id)
                    /\ type # None => t.type = Val(type)}

\* C6: monthly_trend(n), n in 1..24, has n entries, the k-th being the
\* calendar month n - k months before the current one (so oldest first and
\* across year boundaries), a month without transactions showing zeros.
C6_MonthlyTrend ==
    \A n \in 1 .. 24 :
        LET r == main_get_monthly_trend(DB, n, today)
            current == YearOf(today) * 12 + (MonthOf(today) - 1)
        IN  /\ r.status = HTTP_OK
            /\ Len(r.body) = n
            /\ \A k \in 1 .. n :
                  LET index == current - (n - k)
                      year == index \div 12
                      month == (index % 12) + 1
                      empty == \A t \in transactions :
                                  \/ YearOf(t.transaction_date) # year
                                  \/ MonthOf(t.transaction_date) # month
                  IN  /\ r.body[k].year = year
                      /\ r.body[k].month = MonthName(month)
                      /\ empty => /\ r.body[k].income = 0
                                  /\ r.body[k].expenses = 0
                                  /\ r.body[k].balance = 0

\* three months asked for in February: December of the year before, January,
\* February
C6_Witness ==
    /\ resp.op = "monthly_trend"
    /\ resp.status = HTTP_OK
    /\ today = Feb15
    /\ Len(resp.body) = 3
    /\ resp.body[1].month = "December" /\ resp.body[1].year = 2023
    /\ resp.body[2].month = "January" /\ resp.body[2].year = 2024
    /\ resp.body[3].month = "February" /\ resp.body[3].year = 2024

\* C7: summary reports the income and expense sums of the range (to two
\* decimals), balance = total_income - total_expenses, and the number of rows
\* of the range, which is the number of income rows plus that of expense rows.
C7_SummaryIdentity ==
    \A start_date \in RangeInputs, end_date \in RangeInputs :
        LET body == main_get_summary(DB, start_date, end_date).body
            rows == InRange(transactions, start_date, end_date)
            income == {t \in rows : t.type = "INCOME"}
            expenses == {t \in rows : t.type = "EXPENSE"}
        IN  /\ body.total_income = round2(Total(income))
            /\ body.total_expenses = round2(Total(expenses))
            /\ body.balance = body.total_income - body.total_expenses
            /\ body.transaction_count = Cardinality(rows)
            /\ body.transaction_count =
                    Cardinality(income) + Cardinality(expenses)

\* the transactions of a budget's category dated within [start, end]
SpentRows(budget, start_date, end_date) ==
    {t \in InRange(transactions, start_date, end_date) :
        t.category_id = budget.category_id}

\* C8 as amended: for every budget and every supplied range, with spent the
\* sum of the category's transactions in the range, the entry reports spent
\* and budget.amount - spent to two decimals, spent / amount * 100 to one
\* decimal, is_over_budget = (spent > amount): false at spent = amount, and
\* true exactly when the unrounded budget.amount - spent is negative, so that
\* an entry over budget reports remaining <= 0 and a negative remaining is
\* over budget.
C8_BudgetStatus ==
    \A start_date \in RangeInputs \ {None}, end_date \in RangeInputs \ {None} :
        LET body == main_get_budgets(DB, start_date, end_date, today).body
        IN  /\ Cardinality(body) = Cardinality(budgets)
            /\ \A budget \in budgets :
                  \E e \in body :
                      LET spent ==
                            Total(SpentRows(budget, start_date, end_date))
                      IN  /\ e.budget_id = budget.budget_id
                          /\ e.spent_amount = round2(spent)
                          /\ e.remaining = round2(budget.amount - spent)
                          /\ e.percentage_used =
                                RoundHalfEven(spent * 1000, budget.amount)
                          /\ e.is_over_budget = (spent > budget.amount)
                          /\ spent = budget.amount => ~e.is_over_budget
                          /\ e.is_over_budget = (budget.amount - spent < 0)
                          /\ e.is_over_budget => e.remaining <= 0
                          /\ e.remaining < 0 => e.is_over_budget

\* a budget exactly used up was reported: nothing remains and it is not over
C8_Witness ==
    /\ resp.op = "budgets_with_status"
    /\ \E e \in resp.body :
          /\ e.spent_amount > 0
          /\ e.remaining = 0
          /\ ~e.is_over_budget
          /\ \E b \in budgets :
                b.budget_id = e.budget_id /\ b.amount = 996
    /\ Cardinality(transactions) = 1

\* C8 as stated: the same, with is_over_budget holding exactly when the
\* reported remaining is negative.
C8_OverIffRemainingNegative ==
    \A start_date \in RangeInputs \ {None}, end_date \in RangeInputs \ {None} :
        LET body == main_get_budgets(DB, start_date, end_date, today).body
        IN  \A budget \in budgets :
                \E e \in body :
                    LET spent ==
                            Total(SpentRows(budget, start_date, end_date))
                    IN  /\ e.budget_id = budget.budget_id
                        /\ e.spent_amount = round2(spent)
                        /\ e.remaining = round2(budget.amount - spent)
                        /\ e.percentage_used =
                                RoundHalfEven(spent * 1000, budget.amount)
                        /\ e.is_over_budget = (spent > budget.amount)
                        /\ spent = budget.amount => ~e.is_over_budget
                        /\ e.is_over_budget = (e.remaining < 0)

C10_RegisterConflicts ==
    /\ \A u1, u2 \in users :
          (u1.username = u2.username \/ u1.email = u2.email) => u1 = u2
    /\ \A user_data \in UserInputs :
          UserCreateErrors(user_data) = {} =>
              LET r == main_register(DB, user_data, utcnow)
                  username_taken ==
                      \E u \in users : u.username = user_data.username
                  email_taken == \E u \in users : u.email = user_data.email
              IN  /\ username_taken =>
                        /\ r.status = HTTP_BAD_REQUEST
                        /\ r.detail = "Username already registered"
                        /\ r.db = DB
                  /\ (~username_taken /\ email_taken) =>
                        /\ r.status = HTTP_BAD_REQUEST
                        /\ r.detail = "Email already registered"
                        /\ r.db = DB
                  /\ (~username_taken /\ ~email_taken) =>
                        /\ r.status = HTTP_CREATED
                        /\ Cardinality(r.db.users) = Cardinality(users) + 1

\* a registration was refused for its email, its username being free
C10_Witness ==
    /\ resp.op = "register"
    /\ resp.status = HTTP_BAD_REQUEST
    /\ resp.detail = "Email already registered"
    /\ Cardinality(users) = 2

\* partial updates of every field, one at a time (also null) and several
\* at once
PatchInputs ==
    UpdateInputs
    \cup {[description |-> d] : d \in {None, Some("lunch")}}
    \cup {[transaction_date |-> d] : d \in {None, Some(Feb01)}}
    \cup {[type |-> Some("EXPENSE"), description |-> Some("lunch"),
           transaction_date |-> Some(Feb01)]}

\* the patch supplies a null for a column that is NOT NULL
NullSupplied(update) ==
    \E f \in DOMAIN update \cap {"amount", "type", "transaction_date"} :
        update[f] = None

\* the patch names a category that is null or does not exist
CategoryMissing(update) ==
    /\ "category_id" \in DOMAIN update
    /\ \/ update.category_id = None
       \/ ~ \E c \in categories : c.category_id = Val(update.category_id)

\* new is old with exactly the fields of update set to the values of update
Patched(old, new, update) ==
    /\ new.transaction_id = old.transaction_id
    /\ new.description = IF "description" \in DOMAIN update
                         THEN update.description ELSE old.description
    /\ \A f \in {"amount", "type", "transaction_date", "category_id"} :
          new[f] = IF f \in DOMAIN update THEN Val(update[f]) ELSE old[f]

\* the reply to an update of transaction id: not found, category not found,
\* or the row patched and nothing else changed; when_null says what a null
\* for a NOT NULL column gives
UpdateContract(id, update, when_null) ==
    LET r == main_update_transaction(DB, id, update)
        old == {t \in transactions : t.transaction_id = id}
    IN  IF old = {}
        THEN r.status = HTTP_NOT_FOUND /\ r.db = DB
        ELSE IF CategoryMissing(update)
        THEN r.status = HTTP_BAD_REQUEST /\ r.db = DB
        ELSE IF NullSupplied(update) /\ when_null = "rejected"
        THEN r.status = HTTP_BAD_REQUEST /\ r.db = DB
        ELSE /\ r.status = HTTP_OK
             /\ r.db.categories = categories
             /\ r.db.budgets = budgets
             /\ \A t \in old :
                   /\ Patched(t, Val(r.body), update)
                   /\ r.db.transactions = (transactions \ {t}) \cup {Val(r.body)}
                   /\ update = <<>> => r.db = DB

\* C11 as amended: update_transaction fails with 404 when the id is absent,
\* with 400 and no change when the supplied category_id is null or names no
\* category, and with 400 and no change when a null is supplied for amount,
\* type or transaction_date; otherwise it sets exactly the supplied fields,
\* keeps the others and the id, and changes no other row; an empty update
\* changes nothing.
C11_PartialUpdate ==
    \A id \in TransactionIds \cup {MissingTransactionId},
       update \in PatchInputs :
        TransactionUpdateErrors(update) = {} =>
            UpdateContract(id, update, "rejected")

\* a second transaction was moved to the other category with a new amount
C11_Witness ==
    /\ resp.op = "update_transaction"
    /\ resp.status = HTTP_OK
    /\ Val(resp.body) \in transactions
    /\ Val(resp.body).transaction_id = 2
    /\ Val(resp.body).amount = 2004
    /\ \E t \in transactions :
          /\ t.transaction_id = 1
          /\ t.category_id # Val(resp.body).category_id

\* C11 as stated: every update of an existing transaction whose category
\* resolves sets the supplied fields to the supplied values.
C11_SuppliedFieldsAlwaysSet ==
    \A id \in TransactionIds \cup {MissingTransactionId},
       update \in PatchInputs :
        TransactionUpdateErrors(update) = {} =>
            UpdateContract(id, update, "set")

\* no listing and no lookup of the store db returns a transaction with id
Gone(db, id) ==
    /\ get_transaction(db, id) = None
    /\ \A rows \in get_transactions(db, 0, MaxLimit, None, None, None, None) :
          \A i \in DOMAIN rows : rows[i].transaction_id # id

C13_CreateTransaction ==
    \A transaction \in TransactionInputs :
        TransactionCreateErrors(transaction) = {} =>
            LET r == main_create_transaction(DB, transaction)
            IN  IF ~ \E c \in categories :
                        c.category_id = transaction.category_id
                THEN r.status = HTTP_BAD_REQUEST /\ r.db = DB
                ELSE /\ r.status = HTTP_CREATED
                     /\ r.db.transactions = transactions \cup {Val(r.body)}
                     /\ \A t \in transactions :
                           t.transaction_id # Val(r.body).transaction_id
                     /\ \A f \in DOMAIN transaction :
                           Val(r.body)[f] = transaction[f]
                     /\ r.db.categories = categories
                     /\ r.db.budgets = budgets
                     /\ r.db.users = users

\* a second transaction was added next to the first
C13_Witness ==
    /\ resp.op = "create_transaction"
    /\ resp.status = HTTP_CREATED
    /\ Val(resp.body) \in transactions
    /\ Val(resp.body).transaction_id = 2
    /\ \E t \in transactions : t.transaction_id = 1

\* C14: create_category answers 400 "already exists" and adds no row when a
\* category has the name, and otherwise stores and returns the new row with
\* the supplied name and type; category names are pairwise distinct and every
\* category type is INCOME or EXPENSE.
C14_CreateCategory ==
    /\ \A c1, c2 \in categories : c1.name = c2.name => c1 = c2
    /\ \A c \in categories : c.type \in {"INCOME", "EXPENSE"}
    /\ \A category \in CategoryInputs :
          CategoryCreateErrors(category) = {} =>
              LET r == main_create_category(DB, category)
              IN  IF \E c \in categories : c.name = category.name
                  THEN /\ r.status = HTTP_BAD_REQUEST
                       /\ r.detail = "Category already exists"
                       /\ r.db = DB
                  ELSE /\ r.status = HTTP_CREATED
                       /\ Val(r.body).name = category.name
                       /\ Val(r.body).type = category.type
                       /\ Val(r.body) \notin categories
                       /\ r.db = [DB EXCEPT !.categories = @ \cup {Val(r.body)}]

\* a category was refused for its name while two categories exist
C14_Witness ==
    /\ resp.op = "create_category"
    /\ resp.status = HTTP_BAD_REQUEST
    /\ resp.detail = "Category already exists"
    /\ Cardinality(categories) = 2

\* C15: create_default_categories returns nothing and changes nothing when a
\* category exists; on an empty table it inserts 15 categories, 5 INCOME then
\* 10 EXPENSE, in that order, under distinct names; run again, at any process
\* start, it adds nothing and changes no category.
C15_SeedDefaults ==
    LET r == startup_event(DB)
    IN  /\ r.db.transactions = transactions
        /\ r.db.budgets = budgets
        /\ r.db.users = users
        /\ categories # {} => r.db = DB /\ r.body = <<>>
        /\ categories = {} =>
              /\ Len(r.body) = 15
              /\ \A i \in 1 .. 15 :
                    /\ r.body[i].category_id = i
                    /\ r.body[i].type = IF i <= 5 THEN "INCOME" ELSE "EXPENSE"
                    /\ r.body[i].name = default_categories[i].name
              /\ \A i, j \in 1 .. 15 :
                    r.body[i].name = r.body[j].name => i = j
              /\ r.db.categories = {r.body[i] : i \in 1 .. 15}
        /\ LET again == startup_event(r.db)
           IN  again.db = r.db /\ again.body = <<>>

\* the process started again with the defaults and a category of the user
\* in the table: nothing was added
C15_Witness ==
    /\ resp.op = "startup"
    /\ resp.body = <<>>
    /\ Cardinality(categories) = 16
    /\ \E c \in categories : c.name = "Pets"

\* C16: authenticate_user returns the user exactly when a user has the
\* username and the hash of the password is the stored hash; after a
\* successful register(u, e, p), authenticate(u, p) returns that user; login
\* answers an unknown username and a wrong password with one and the same
\* response, 401 "Incorrect username or password".
C16_Authenticate ==
    /\ \A username \in LoginNames, password \in LoginPasswords :
          LET user == authenticate_user(DB, username, password)
              r == main_login(DB, username, password, utcnow)
              matching ==
                  {u \in users :
                      /\ u.username = username
                      /\ u.hashed_password = hash_password(password)}
          IN  /\ user # None <=> matching # {}
              /\ user # None => Val(user) \in matching
              /\ r.db = DB
              /\ IF user = None
                 THEN r = Reply(DB, HTTP_UNAUTHORIZED,
                                "Incorrect username or password", None)
                 ELSE r.status = HTTP_OK /\ r.body.user = Val(user)
    /\ \A user_data \in UserInputs :
          LET r == main_register(DB, user_data, utcnow)
          IN  r.status = HTTP_CREATED =>
                  /\ r.body.user.username = user_data.username
                  /\ authenticate_user(r.db, user_data.username,
                                       user_data.password)
                        = Some(r.body.user)

\* a login with the password of the other user was refused
C16_Witness ==
    /\ resp.op = "login"
    /\ resp.status = HTTP_UNAUTHORIZED
    /\ \E u1, u2 \in users :
          /\ u1.username = "alice" /\ u2.username = "bob"
          /\ u1.hashed_password # u2.hashed_password
    /\ tokens # {}

\* the token resolves to a user at time now
Accepted(token, now) ==
    LET r == main_get_current_user_info(DB, token, now)
    IN  r.status = HTTP_OK /\ Val(r.body).username = token.sub

Rejected(token, now) ==
    main_get_current_user_info(DB, token, now).status = HTTP_UNAUTHORIZED

\* C17: a token of register or login expires 24 hours after it is issued; a
\* token issued to a user is accepted, resolving to that user, at every time
\* before its expiry, whatever was done since, and rejected at every time
\* after it; a token that is rejected is rejected ever after.
C17_TokenLifecycle ==
    /\ [](/\ \A token \in tokens :
                /\ utcnow < token.exp => Accepted(token, utcnow)
                /\ utcnow > token.exp => Rejected(token, utcnow)
          /\ \A username \in {"alice", "bob"} :
                LET r == main_login(DB, username, "secret1", utcnow)
                IN  r.status = HTTP_OK =>
                        /\ r.body.access_token.sub = username
                        /\ r.body.access_token.exp = utcnow + 24 * 60
          /\ \A user_data \in TokenUserInputs :
                LET r == main_register(DB, user_data, utcnow)
                IN  r.status = HTTP_CREATED =>
                        /\ r.body.access_token.sub = user_data.username
                        /\ r.body.access_token.exp = utcnow + 24 * 60)
    /\ [][\A token \in tokens \cup OtherTokens :
            Rejected(token, utcnow) => Rejected(token, utcnow)']_vars

\* alice holds an expired token, which was just refused, and a fresh one
C17_Witness ==
    /\ resp.op = "me"
    /\ resp.status = HTTP_UNAUTHORIZED
    /\ \E t1, t2 \in tokens :
          /\ t1.sub = "alice" /\ t2.sub = "alice"
          /\ t1.exp < utcnow /\ utcnow < t2.exp

\* C18: every budget row has period MONTHLY, WEEKLY or YEARLY, MONTHLY when
\* the request supplies none, and create_or_update_budget stores no other
\* period.
C18_PeriodValues ==
    /\ \A b \in budgets : b.period \in {"MONTHLY", "WEEKLY", "YEARLY"}
    /\ \A request \in BudgetInputs :
          LET r == main_create_budget(DB, request)
          IN  /\ \A b \in r.db.budgets :
                    b.period \in {"MONTHLY", "WEEKLY", "YEARLY"}
              /\ (r.status = HTTP_CREATED /\ request.period = None) =>
                    Val(r.body).period = "MONTHLY"

\* C19: without a date range, budgets_with_status counts as spent exactly
\* the transactions of the budget's category dated in the calendar month of
\* today, its first and last day included, and none of another month.
C19_CurrentMonthDefault ==
    LET body == main_get_budgets(DB, None, None, today).body
    IN  /\ Cardinality(body) = Cardinality(budgets)
        /\ \A budget \in budgets :
              \E e \in body :
                  /\ e.budget_id = budget.budget_id
                  /\ e.spent_amount =
                        round2(Total(
                            {t \in transactions :
                                /\ t.category_id = budget.category_id
                                /\ YearOf(t.transaction_date) = YearOf(today)
                                /\ MonthOf(t.transaction_date)
                                      = MonthOf(today)}))

\* in February 2023 an expense of the 28th was counted and one of the first
\* of March was not: the answer of a request without a range
C19_Witness ==
    /\ resp.op = "budgets_with_status"
    /\ today = date(2023, 2, 10)
    /\ \E t1, t2 \in transactions :
          /\ t1.transaction_date = date(2023, 2, 28)
          /\ t2.transaction_date = date(2023, 3, 1)
    /\ \E e \in resp.body : e.spent_amount = 1000

\* C20: category_breakdown has exactly one entry for each category with at
\* least one transaction matching the range and the type filter, carrying the
\* category's name and type, the sum (to two decimals) and the number of
\* those transactions; a category with no matching transaction has no entry
\* and none has two.
C20_CategoryBreakdown ==
    \A start_date \in RangeInputs, end_date \in RangeInputs,
       type \in TypeFilterInputs :
        LET body == main_get_category_breakdown(DB, start_date, end_date,
                                                type).body
            matching(c) ==
                {t \in InRange(transactions, start_date, end_date) :
                    /\ t.category_id = c.category_id
                    /\ type # None => t.type = Val(type)}
        IN  /\ \A c \in categories :
                  IF matching(c) = {}
                  THEN ~ \E e \in body : e.category_id = c.category_id
                  ELSE \E e \in body :
                          /\ e.category_id = c.category_id
                          /\ e.category_name = c.name
                          /\ e.type = c.type
                          /\ e.total_amount = round2(Total(matching(c)))
                          /\ e.transaction_count = Cardinality(matching(c))
            /\ \A e1, e2 \in body :
                  e1.category_id = e2.category_id => e1 = e2
            /\ \A e \in body :
                  \E c \in categories : c.category_id = e.category_id

\* C21: all_time_balance reports the total_income, total_expenses and
\* balance that summary without date bounds reports, and 0 for all three on
\* an empty store.
C21_BalanceIsSummary ==
    LET balance == main_get_balance(DB).body
        summary == main_get_summary(DB, None, None).body
    IN  /\ balance.total_income = summary.total_income
        /\ balance.total_expenses = summary.total_expenses
        /\ balance.balance = summary.balance
        /\ transactions = {} =>
              /\ balance.total_income = 0
              /\ balance.total_expenses = 0
              /\ balance.balance = 0

\* the balance of an income of 0.996 and an expense of 1.004 was asked for
C21_Witness ==
    /\ resp.op = "balance"
    /\ resp.body.total_income = 1000
    /\ resp.body.total_expenses = 1000
    /\ resp.body.balance = -10

\* the type of the transaction is not the type of its category
Mismatched(db, t) ==
    \E c \in db.categories : c.category_id = t.category_id /\ c.type # t.type

\* the name of the figure a transaction of the type is summed into
FigureOf(type) == IF type = "INCOME" THEN "income" ELSE "expenses"

\* C22: create_transaction and update_transaction accept a transaction whose
\* type differs from the type of its category; summary and monthly_trend count
\* such a transaction under its own type, and budgets_with_status adds it to
\* spent of the budget of its category whatever its type.
C22_TypeMismatch ==
    /\ \A transaction \in MismatchInputs :
          Mismatched(DB, transaction) =>
              LET r == main_create_transaction(DB, transaction)
              IN  /\ r.status = HTTP_CREATED
                  /\ Val(r.body) \in r.db.transactions
                  /\ Val(r.body).type = transaction.type
                  /\ Val(r.body).category_id = transaction.category_id
    /\ \A t \in transactions : \A update \in MismatchUpdates :
          LET r == main_update_transaction(DB, t.transaction_id, update)
          IN  /\ r.status = HTTP_OK
              /\ Val(r.body) \in r.db.transactions
              /\ \A f \in DOMAIN update : Val(r.body)[f] = Val(update[f])
    /\ \A t \in transactions :
          Mismatched(DB, t) =>
              LET without == [DB EXCEPT !.transactions = @ \ {t}]
                  own == "total_" \o FigureOf(t.type)
                  other == IF t.type = "INCOME" THEN "total_expenses"
                           ELSE "total_income"
                  summary == get_summary(DB, None, None)
                  summary0 == get_summary(without, None, None)
                  trend == get_monthly_trend(DB, 2, today)
                  trend0 == get_monthly_trend(without, 2, today)
                  k == IF t.transaction_date = Jan31 THEN 1 ELSE 2
                  status == get_budgets_with_status(DB, Some(Jan31), None, today)
                  status0 ==
                      get_budgets_with_status(without, Some(Jan31), None, today)
              IN  /\ summary[own] = summary0[own] + t.amount
                  /\ summary[other] = summary0[other]
                  /\ trend[k][FigureOf(t.type)]
                        = trend0[k][FigureOf(t.type)] + t.amount
                  /\ \A b \in budgets :
                        b.category_id = t.category_id =>
                            \E e \in status, e0 \in status0 :
                                /\ e.budget_id = b.budget_id
                                /\ e0.budget_id = b.budget_id
                                /\ e.spent_amount = e0.spent_amount + t.amount

\* an INCOME transaction was stored in the EXPENSE category and the budget of
\* the category reports it as spent
C22_Witness ==
    /\ resp.op = "budgets_with_status"
    /\ \E t \in transactions :
          /\ transactions = {t}
          /\ t.type = "INCOME" /\ t.category_id = 2 /\ t.amount = 2000
    /\ \E e \in resp.body : e.spent_amount = 2000 /\ e.is_over_budget

\* the kind of error a reply reports, "" for a reply of no listed kind
ErrorKind(r) ==
    IF r.status = HTTP_UNPROCESSABLE THEN "ValidationError"
    ELSE IF r.detail \in {"Category not found", "Transaction not found"}
    THEN "NotFoundError"
    ELSE IF r.detail \in {"Category already exists",
                          "Username already registered",
                          "Email already registered"}
    THEN "ConflictError"
    ELSE IF r.detail = "Incorrect username or password" THEN "AuthError"
    ELSE IF r.detail = "Database connection failed" THEN "DependencyError"
    ELSE ""

\* the replies the operations give in a store
Replies(db) ==
    {main_create_category(db, c) : c \in CategoryInputs}
    \cup {main_create_transaction(db, t) : t \in TransactionInputs}
    \cup {main_update_transaction(db, id, u) :
            id \in TransactionIds \cup {MissingTransactionId},
            u \in UpdateInputs}
    \cup {main_delete_transaction(db, id) :
            id \in TransactionIds \cup {MissingTransactionId}}
    \cup {main_create_budget(db, b) : b \in BudgetInputs}
    \cup {main_register(db, u, 0) : u \in UserInputs}
    \cup {main_login(db, n, w, 0) : n \in LoginNames, w \in LoginPasswords}
    \cup {health_check(db, connected) : connected \in BOOLEAN}

\* the pairs of error kind and status the operations answer with in a store
KindStatuses(db) ==
    {<<ErrorKind(r), r.status>> : r \in {x \in Replies(db) : ErrorKind(x) # ""}}

\* C23: replies of two different error kinds (ValidationError, NotFoundError,
\* ConflictError, AuthError, DependencyError) never carry the same status,
\* whichever of create_category, create_transaction, update_transaction,
\* delete_transaction, create_or_update_budget, register, login and health
\* gives them.
C23_DistinctStatuses ==
    \A e1 \in KindStatuses(DB), e2 \in KindStatuses(DB) :
        e1[1] # e2[1] => e1[2] # e2[2]

\* the callers whose request is answered
Done == {i \in Callers : calls[i].pc = "done"}

\* the callers that found no budget for the category and went on to insert
\* one, and are answered
Inserters ==
    {i \in Done : /\ calls[i].loaded = None
                  /\ Val(calls[i].reply).detail \in {"", "Database error"}}

\* C24: however two concurrent create_or_update_budget calls for an EXPENSE
\* category without a budget interleave, the category never has two budget
\* rows; of the calls that both found no budget, one is answered 201 with the
\* row it stored and every other one 400 "Database error", and when all have
\* been answered the table holds the one row of the call that won.
C24_BudgetRace ==
    /\ \A c \in categories :
          Cardinality({b \in budgets : b.category_id = c.category_id}) <= 1
    /\ Inserters # {} =>
          \E winner \in Inserters :
              /\ Val(calls[winner].reply).status = HTTP_CREATED
              /\ \E b \in budgets :
                    b.budget_id = Val(Val(calls[winner].reply).body).budget_id
              /\ \A i \in Inserters \ {winner} :
                    /\ Val(calls[i].reply).status = HTTP_BAD_REQUEST
                    /\ Val(calls[i].reply).detail = "Database error"
                    /\ Val(calls[i].reply).body = None
              /\ Inserters = Callers =>
                    budgets = {Val(Val(calls[winner].reply).body)}

\* two calls both found no budget, the first stored its row and the second
\* was refused
C24_Witness ==
    /\ Inserters = Callers
    /\ Val(calls[1].reply).status = HTTP_CREATED
    /\ \A i \in Callers \ {1} : Val(calls[i].reply).status = HTTP_BAD_REQUEST
    /\ Cardinality(budgets) = 1

\* a reply that reports an error leaves the store as it is
Harmless(r) == r.status >= HTTP_BAD_REQUEST => r.db = DB

\* C25: a call that ends in an error leaves the store exactly as it was
\* before the call, whether the error is found before the write (not found,
\* bad request, duplicate, validation) or is an integrity violation raised at
\* commit in create_category, create_transaction, update_transaction or
\* create_or_update_budget, after which the write is rolled back.
C25_ErrorsChangeNothing ==
    /\ \A c \in CategoryInputs :
          /\ Harmless(main_create_category(DB, c))
          /\ Harmless(create_category(DB, c))
    /\ \A t \in TransactionInputs :
          /\ Harmless(main_create_transaction(DB, t))
          /\ Harmless(create_transaction(DB, t))
    /\ \A id \in TransactionIds \cup {MissingTransactionId} :
          /\ Harmless(main_delete_transaction(DB, id))
          /\ \A u \in PatchInputs : Harmless(main_update_transaction(DB, id, u))
    /\ \A b \in BudgetInputs :
          /\ Harmless(main_create_budget(DB, b))
          /\ Harmless(create_or_update_budget(DB, BudgetCreate(b)))
    /\ \A u \in UserInputs : Harmless(main_register(DB, u, utcnow))
    /\ \A n \in LoginNames, w \in LoginPasswords :
          Harmless(main_login(DB, n, w, utcnow))

\* an update that sets the amount to null was refused at commit and both
\* transactions are as they were
C25_Witness ==
    /\ resp.op = "update_transaction"
    /\ resp.status = HTTP_BAD_REQUEST
    /\ resp.detail = "Database error"
    /\ Cardinality(transactions) = 2
    /\ \A t \in transactions : t.amount > 0

\* the callers whose call has begun and has not returned
InFlight == {i \in DOMAIN calls : calls[i].pc \notin {"idle", "done"}}

\* C26: every API call, and the startup seeding, opens a session of its own;
\* no two calls in progress use the same session, no session is open unless
\* the call that opened it is still in progress, and every open session is
\* eventually closed, whether its call succeeds or fails.
C26_SessionsClosed ==
    /\ [](\A i \in InFlight, j \in InFlight :
            i # j => calls[i].loaded # calls[j].loaded)
    /\ [](\A s \in DOMAIN sessions :
            sessions[s].state = "open" =>
                \E i \in InFlight : calls[i].loaded = Some(s))
    /\ \A s \in 1 .. MaxSessions :
          (s \in DOMAIN sessions /\ sessions[s].state = "open")
              ~> (s \in DOMAIN sessions /\ sessions[s].state = "closed")

\* a request was refused and returned, and its session is closed; the
\* session of the startup event is closed as well
C26_Witness ==
    /\ Len(sessions) = 2
    /\ sessions[1].state = "closed" /\ sessions[2].state = "closed"
    /\ calls[StartupCaller].pc = "done"
    /\ \A i \in Callers : calls[i].pc = "idle"
    /\ Cardinality(categories) = Len(default_categories)

\* C27: in every state reached by seed_default_categories, create_category,
\* create_transaction, update_transaction, delete_transaction and
\* create_or_update_budget, the category_id of every transaction and of every
\* budget is the id of a category that exists.
C27_ReferentialIntegrity ==
    /\ \A t \in transactions :
          \E c \in categories : c.category_id = t.category_id
    /\ \A b \in budgets :
          \E c \in categories : c.category_id = b.category_id

\* after the defaults were seeded a category was added, a transaction was
\* moved to it and it was given a budget, while requests that name category
\* 0 were refused
C27_Witness ==
    /\ Cardinality(categories) = Len(default_categories) + 1
    /\ resp.op = "update_transaction"
    /\ resp.status = HTTP_BAD_REQUEST
    /\ \E t \in transactions : t.category_id = Len(default_categories) + 1
    /\ \E b \in budgets : b.category_id = Len(default_categories) + 1

\* C28: however two concurrent register calls interleave, no two users share
\* a username or an email, and a call that creates no user is answered 422
\* for an invalid body or HTTP 400 "Username already registered" / "Email
\* already registered", as a sequential duplicate registration is.
C28_RegisterRace ==
    /\ \A u1 \in users, u2 \in users :
          (u1.username = u2.username \/ u1.email = u2.email) => u1 = u2
    /\ \A i \in Done :
          LET reply == Val(calls[i].reply)
          IN  \/ reply.status = HTTP_CREATED
              \/ reply.status = HTTP_UNPROCESSABLE
              \/ /\ reply.status = HTTP_BAD_REQUEST
                 /\ reply.detail \in {"Username already registered",
                                      "Email already registered"}

\* the totals and the counts of the rows of a breakdown, added up
BreakdownTotal(results) == SumOver(results, [r \in results |-> r[4]])
BreakdownCount(results) == SumOver(results, [r \in results |-> r[5]])

\* C29: on every store and date range, before rounding, the totals of
\* category_breakdown without a type filter add up to total_income plus
\* total_expenses of summary and its counts to summary's transaction_count,
\* and the totals of the breakdown of type INCOME and of type EXPENSE add up
\* to total_income and to total_expenses.
C29_AnalyticsConsistent ==
    \A start_date \in RangeInputs, end_date \in {None, Some(Jan31)} :
        LET totals == summary_totals(DB, start_date, end_date)
            all == breakdown_results(DB, start_date, end_date, None)
            income == breakdown_results(DB, start_date, end_date, Some("INCOME"))
            expense ==
                breakdown_results(DB, start_date, end_date, Some("EXPENSE"))
        IN  /\ BreakdownTotal(all) = totals.total_income + totals.total_expenses
            /\ BreakdownCount(all) = totals.transaction_count
            /\ BreakdownTotal(income) = totals.total_income
            /\ BreakdownTotal(expense) = totals.total_expenses

\* the breakdown of type INCOME was asked for a store with an income in the
\* EXPENSE category and an expense in the INCOME category
C29_Witness ==
    /\ resp.op = "category_breakdown"
    /\ Cardinality(resp.body) = 1
    /\ \E e \in resp.body : e.type = "EXPENSE" /\ e.total_amount = 1000
    /\ \E t1, t2 \in transactions :
          /\ transactions = {t1, t2}
          /\ t1.type = "INCOME" /\ t1.category_id = 2 /\ t1.amount = 996
          /\ t2.type = "EXPENSE" /\ t2.category_id = 1

\* the bounds a request for the budgets may carry
BoundInputs ==
    {Feb01, Feb29, date(2024, 3, 1), date(2023, 2, 28), date(2023, 3, 1),
     date(2024, 12, 1), date(2025, 1, 1)}

\* the date is in the current month or before it, or after it
UpToThisMonth(d) ==
    \/ YearOf(d) < YearOf(today)
    \/ YearOf(d) = YearOf(today) /\ MonthOf(d) <= MonthOf(today)
FromThisMonth(d) ==
    \/ YearOf(d) > YearOf(today)
    \/ YearOf(d) = YearOf(today) /\ MonthOf(d) >= MonthOf(today)

\* the entry of the budget reports spent as the sum of rows, and nothing
\* spent when the range is empty
Reports(body, budget, rows, empty) ==
    \E e \in body :
        /\ e.budget_id = budget.budget_id
        /\ e.spent_amount = round2(Total(rows))
        /\ empty => /\ e.spent_amount = 0
                    /\ e.remaining = round2(budget.amount)
                    /\ ~e.is_over_budget

=============================================================================
